---- MODULE Spec2Model ----
(***************************************************************************)
(* RAID-1 module of the bdev_raid framework (module/bdev/raid/raid1.c):    *)
(* the per-channel I/O dispatch and completion state machine for           *)
(* read / write / read-repair / unmap / flush, the read-selection policy   *)
(* and the faulty-base delta bitmaps with their channel hand-off.          *)
(*                                                                         *)
(* One raid_bdev with num_base_bdevs base slots and one raid1 I/O channel  *)
(* are modelled.  Every callback of raid1.c is one action; the base bdev   *)
(* layer is the environment: it answers every submission with 0, -ENOMEM   *)
(* or another error, and later completes every accepted base I/O with      *)
(* success or failure.                                                     *)
(***************************************************************************)
EXTENDS Integers, Sequences, FiniteSets, TLC

\* ------------------------------------------------------------------ bounds
NumBaseBdevs == 2      \* raid_bdev->num_base_bdevs is at most NumBaseBdevs
MaxIo == 2             \* raid_bdev_io contexts that can be in flight at once
MaxBlockcnt == 3       \* bdev.blockcnt is MaxBlockcnt - 1 or MaxBlockcnt
MaxNumBlocks == 2      \* largest num_blocks of one request
MaxRegions == 2        \* delta regions of the raid bdev, at most
LBReads == 6           \* read contexts of the load-balance specification
LiveIo == 1            \* raid_bdev_io contexts of the liveness specification
MaxDevClusters == 3    \* clusters of the logical volume, at most
MaxBlockSize == 2      \* bytes of a block of the logical volume, at most
BlocksPerCluster == 2  \* blocks of a cluster of the logical volume
WordBits == 6          \* bits of a uint64_t
IndexBits == 4         \* bits of a uint32_t
ProbeBaseBdevs == 3     \* base bdevs of the read-repair specification
NumChannels == 2       \* channels of the raid bdev in SpecChannels

\* --------------------------------------------------------- program constants
UINT8_MAX == 255

Bases == 0 .. (NumBaseBdevs - 1)
IoTypes == {"READ", "WRITE", "UNMAP", "FLUSH"}
SubmitResults == {"ok", "ENOMEM", "EIO"}
BaseStates == {"NONE", "FAULTY", "FAULTY_STOPPED"}

VARIABLES
    ios,                      \* the raid_bdev_io contexts, by slot
    read_blocks_outstanding,  \* raid1_io_channel.read_blocks_outstanding
    delta_bitmaps,            \* raid1_io_channel.delta_bitmaps
    states,                   \* raid1_io_channel.states
    base_ch,                  \* raid_ch's base channels: TRUE when present
    base_delta_bitmap,        \* base_info->delta_bitmap, owned by the raid bdev
    delta_bitmap_enabled,     \* raid_bdev->delta_bitmap_enabled
    blockcnt,                 \* raid_bdev->bdev.blockcnt
    optimal_io_boundary,      \* raid_bdev->bdev.optimal_io_boundary
    num_base_bdevs,           \* raid_bdev->num_base_bdevs
    lvol,                     \* the logical volume a fragmap is asked of
    fragmap_io,               \* struct fragmap_io of the fragmap request
    base_bdev_info,           \* raid_bdev->base_bdev_info, with each base's bdev
    module_private,           \* raid_bdev->module_private is set (raid1_start)
    channels                  \* the raid1_io_channel of each further channel

vars == <<ios, read_blocks_outstanding, delta_bitmaps, states, base_ch,
          base_delta_bitmap, delta_bitmap_enabled, blockcnt,
          optimal_io_boundary, num_base_bdevs, lvol, fragmap_io,
          base_bdev_info, module_private, channels>>

\* ------------------------------------------------------------- bit arrays
\* A bit array is its capacity and the set of its set bits; NullBitArray is
\* the NULL handle.
NullBitArray == [cap |-> 0 - 1, bits |-> {}]

spdk_bit_array_create(num_bits) == [cap |-> num_bits, bits |-> {}]

spdk_bit_array_set(ba, i) ==
    IF i < ba.cap THEN [ba EXCEPT !.bits = @ \cup {i}] ELSE ba

spdk_bit_array_get(ba, i) == i < ba.cap /\ i \in ba.bits

CeilDiv(a, b) == (a + b - 1) \div b

\* ------------------------------------------------- framework (bdev_raid.c)
raid_bdev_delta_bitmap_region_blocks_number(boundary) == boundary

raid_bdev_channel_get_base_channel(bch, idx) == bch[idx]

\* The context a handler works on: the raid_io it was called for and the
\* channel / raid bdev state it can touch.
\* tres is what the target of a process request answers to a writev the
\* handler submits to it.
Ctx(k) == [io |-> ios[k], rbo |-> read_blocks_outstanding, bm |-> delta_bitmaps,
           st |-> states, tres |-> "ok"]

FreeIo == [phase |-> "free", type |-> "READ", offset_blocks |-> 0, num_blocks |-> 0,
           base_bdev_io_submitted |-> 0, base_bdev_io_remaining |-> 0,
           base_bdev_io_status |-> "SUCCESS", base_bdev_io_status_default |-> "SUCCESS",
           io_wait |-> "none", legs |-> {}, completions |-> 0, status |-> "NONE",
           ok_legs |-> {}, accounted |-> 0, primary_failed |-> FALSE,
           alt_ok |-> FALSE, faulty_since |-> {}, io_failed |-> {},
           accepted |-> {}, dup |-> FALSE, handled |-> {}, fail_calls |-> 0,
           process |-> FALSE, target |-> 0, process_status |-> "NONE",
           submit_ret |-> "NONE"]

raid_bdev_io_init(type, offset_blocks, num_blocks, st) ==
    [FreeIo EXCEPT !.phase = "active", !.type = type,
                   !.offset_blocks = offset_blocks, !.num_blocks = num_blocks,
                   !.base_bdev_io_status = "FAILED",
                   !.base_bdev_io_status_default = "FAILED",
                   !.faulty_since = IF type = "WRITE"
                                     THEN {b \in Bases : st[b] = "FAULTY"}
                                     ELSE {}]

raid_bdev_io_set_default_status(c, status) ==
    [c EXCEPT !.io.base_bdev_io_status_default = status,
              !.io.base_bdev_io_status = status]

raid_bdev_queue_io_wait(c, resume_fn) == [c EXCEPT !.io.io_wait = resume_fn]

\* A base I/O the base bdev accepted.  accepted and dup remember what this
\* request has had accepted so far, and whether anything was accepted twice.
AddLeg(c, idx, op) ==
    [c EXCEPT !.io.legs = @ \cup {<<idx, op>>},
              !.io.accepted = @ \cup {<<idx, op>>},
              !.io.dup = @ \/ <<idx, op>> \in c.io.accepted]

RemoveLeg(c, idx, op) == [c EXCEPT !.io.legs = @ \ {<<idx, op>>}]

raid_bdev_process_request_complete(c, status) ==
    [c EXCEPT !.io.phase = "done",
              !.io.process_status = status,
              !.io.completions = IF @ < 2 THEN @ + 1 ELSE @]

\* ----------------------------------------- raid1.c: process request, write
raid1_process_write_completed(c, success) ==
    raid_bdev_process_request_complete(
        RemoveLeg(c, c.io.target, "process_write"), IF success THEN "OK" ELSE "EIO")

M_raid1_process_submit_write(c) ==
    CASE c.tres = "ok" -> AddLeg(c, c.io.target, "process_write")
      [] OTHER -> raid_bdev_process_request_complete(c, c.tres)

raid1_process_submit_write(c) ==
    CASE c.tres = "ok" -> AddLeg(c, c.io.target, "process_write")
      [] c.tres = "ENOMEM" -> raid_bdev_queue_io_wait(c, "_raid1_process_submit_write")
      [] OTHER -> raid_bdev_process_request_complete(c, c.tres)

M_raid1_process_read_completed(c, status) ==
    raid1_process_submit_write(c)

raid1_process_read_completed(c, status) ==
    IF status # "SUCCESS"
    THEN raid_bdev_process_request_complete(c, "EIO")
    ELSE raid1_process_submit_write(c)

\* raid_bdev_io_complete hands the status to the request's completion_cb when
\* it has one (a process request), and to the bdev layer otherwise.
raid_bdev_io_complete(c, status) ==
    IF c.io.process
    THEN raid1_process_read_completed([c EXCEPT !.io.status = status], status)
    ELSE [c EXCEPT !.io.phase = "done",
                   !.io.status = status,
                   !.io.completions = IF @ < 2 THEN @ + 1 ELSE @]

raid_bdev_io_complete_part(c, completed, status) ==
    LET c1 == [c EXCEPT !.io.base_bdev_io_remaining = @ - completed,
                        !.io.accounted = @ + completed,
                        !.io.base_bdev_io_status =
                            IF status = "SUCCESS" THEN "SUCCESS" ELSE @]
    IN  IF c1.io.base_bdev_io_remaining = 0
        THEN raid_bdev_io_complete(c1, c1.io.base_bdev_io_status)
        ELSE c1

raid_bdev_fail_base_bdev(c, idx) ==
    [c EXCEPT !.io.io_failed = @ \cup {idx},
              !.io.fail_calls = IF @ < 2 THEN @ + 1 ELSE @]


\* ------------------------------------------------------- raid1.c: hot path
M_SetSections(ba, section_index, end_section) ==
    [ba EXCEPT !.bits = {i \in section_index .. end_section : i < ba.cap}]

RECURSIVE SetSections(_, _, _)
SetSections(ba, section_index, end_section) ==
    IF section_index <= end_section
    THEN SetSections(spdk_bit_array_set(ba, section_index), section_index + 1, end_section)
    ELSE ba

HotPathBitmapCapacity == blockcnt \div optimal_io_boundary

\* HandleFaulty is the function's body; the function also notes in handled
\* that it was called for idx before this request failed the base.
M_HandleFaulty(c, idx, alloc_ok) ==
    IF c.st[idx] = "FAULTY" \/ (c.st[idx] = "NONE" /\ delta_bitmap_enabled)
    THEN IF c.bm[idx] = NullBitArray /\ ~alloc_ok
         THEN c
         ELSE [c EXCEPT !.bm[idx] =
                   SetSections(IF @ = NullBitArray
                               THEN spdk_bit_array_create(HotPathBitmapCapacity) ELSE @,
                               c.io.offset_blocks \div optimal_io_boundary,
                               (c.io.offset_blocks + c.io.num_blocks - 1)
                                   \div optimal_io_boundary),
                         !.st[idx] = "FAULTY"]
    ELSE c

HandleFaulty(c, idx, alloc_ok) ==
    IF c.st[idx] = "FAULTY" \/ (c.st[idx] = "NONE" /\ delta_bitmap_enabled)
    THEN LET start_section == c.io.offset_blocks \div optimal_io_boundary
             end_section == (c.io.offset_blocks + c.io.num_blocks - 1)
                                \div optimal_io_boundary
             absent == c.bm[idx] = NullBitArray
         IN  IF absent /\ ~alloc_ok
             THEN [c EXCEPT !.st[idx] = "FAULTY_STOPPED"]
             ELSE LET c1 == IF absent
                            THEN [c EXCEPT
                                    !.bm[idx] = spdk_bit_array_create(HotPathBitmapCapacity),
                                    !.st[idx] = "FAULTY"]
                            ELSE c
                  IN  [c1 EXCEPT !.bm[idx] = SetSections(@, start_section, end_section)]
    ELSE c

raid1_handle_faulty_base_bdev(c, idx, alloc_ok) ==
    HandleFaulty([c EXCEPT !.io.handled =
                               IF idx \in c.io.io_failed THEN @ ELSE @ \cup {idx}],
                 idx, alloc_ok)

M_raid1_channel_inc_read_counters(c, idx, num_blocks) ==
    [c EXCEPT !.rbo[idx] = @ + 1]

raid1_channel_inc_read_counters(c, idx, num_blocks) ==
    [c EXCEPT !.rbo[idx] = @ + num_blocks]

M_raid1_channel_dec_read_counters(c, idx, num_blocks) ==
    [c EXCEPT !.rbo[idx] = @ - 1]

raid1_channel_dec_read_counters(c, idx, num_blocks) ==
    [c EXCEPT !.rbo[idx] = @ - num_blocks]

\* ------------------------------------------------------ raid1.c: write leg
M_WriteLegStatus(success) == "SUCCESS"

WriteLegStatus(success) == IF success THEN "SUCCESS" ELSE "FAILED"

M_raid1_write_bdev_io_completion(c, idx, success, alloc_ok) ==
    LET c0 == RemoveLeg(c, idx, "writev")
        c1 == IF ~success
              THEN raid1_handle_faulty_base_bdev(
                       raid_bdev_fail_base_bdev(c0, idx), idx, alloc_ok)
              ELSE [c0 EXCEPT !.io.ok_legs = @ \cup {idx}]
    IN  raid_bdev_io_complete_part(c1, 1, WriteLegStatus(success))

raid1_write_bdev_io_completion(c, idx, success, alloc_ok) ==
    LET c0 == RemoveLeg(c, idx, "writev")
        c1 == IF ~success
              THEN raid_bdev_fail_base_bdev(
                       raid1_handle_faulty_base_bdev(c0, idx, alloc_ok), idx)
              ELSE [c0 EXCEPT !.io.ok_legs = @ \cup {idx}]
    IN  raid_bdev_io_complete_part(c1, 1, WriteLegStatus(success))

\* ---------------------------------------------------- raid1.c: read repair
M_raid1_correct_read_error_completion(c, success, alloc_ok) ==
    raid_bdev_io_complete(
        RemoveLeg(c, c.io.base_bdev_io_submitted, "writeback"),
        IF success THEN "SUCCESS" ELSE "FAILED")

raid1_correct_read_error_completion(c, success, alloc_ok) ==
    LET idx == c.io.base_bdev_io_submitted
        c0 == RemoveLeg(c, idx, "writeback")
        c1 == IF ~success
              THEN raid_bdev_fail_base_bdev(
                       raid1_handle_faulty_base_bdev(c0, idx, alloc_ok), idx)
              ELSE c0
    IN  raid_bdev_io_complete(c1, "SUCCESS")

M_raid1_correct_read_error(c, res) ==
    LET i == c.io.base_bdev_io_submitted
    IN  CASE res[i] = "ok" -> AddLeg(c, i, "writeback")
          [] res[i] = "ENOMEM" -> c
          [] OTHER -> raid_bdev_io_complete(raid_bdev_fail_base_bdev(c, i), "SUCCESS")

M_OtherBase_raid1_correct_read_error(c, res) ==
    LET i == (c.io.base_bdev_io_submitted + 1) % num_base_bdevs
    IN  CASE res[i] = "ok" -> AddLeg(c, i, "writeback")
          [] res[i] = "ENOMEM" -> raid_bdev_queue_io_wait(c, "raid1_correct_read_error")
          [] OTHER -> raid_bdev_io_complete(raid_bdev_fail_base_bdev(c, i), "SUCCESS")

raid1_correct_read_error(c, res) ==
    LET i == c.io.base_bdev_io_submitted
    IN  CASE res[i] = "ok" -> AddLeg(c, i, "writeback")
          [] res[i] = "ENOMEM" -> raid_bdev_queue_io_wait(c, "raid1_correct_read_error")
          [] OTHER -> raid_bdev_io_complete(raid_bdev_fail_base_bdev(c, i), "SUCCESS")

M_ReadOtherGiveUp(c) ==
    raid_bdev_io_complete(
        raid_bdev_fail_base_bdev(c, c.io.base_bdev_io_submitted), "SUCCESS")

M_Alternate_ReadOtherGiveUp(c) ==
    raid_bdev_io_complete(
        raid_bdev_fail_base_bdev(c, (c.io.base_bdev_io_submitted + 1) % num_base_bdevs),
        "FAILED")

ReadOtherGiveUp(c) ==
    raid_bdev_io_complete(
        raid_bdev_fail_base_bdev(c, c.io.base_bdev_io_submitted), "FAILED")

RECURSIVE ReadOtherLoop(_, _, _)
ReadOtherLoop(c, i, res) ==
    IF i >= num_base_bdevs
    THEN ReadOtherGiveUp(c)
    ELSE IF ~raid_bdev_channel_get_base_channel(base_ch, i)
            \/ i = c.io.base_bdev_io_submitted
         THEN ReadOtherLoop([c EXCEPT !.io.base_bdev_io_remaining = @ - 1], i + 1, res)
         ELSE CASE res[i] = "ok" ->
                       AddLeg(c, i, "probe")
                [] res[i] = "ENOMEM" ->
                       raid_bdev_queue_io_wait(c, "raid1_read_other_base_bdev")
                [] OTHER -> ReadOtherGiveUp(c)

M_raid1_read_other_base_bdev(c, res) ==
    ReadOtherLoop(c, 0, res)

raid1_read_other_base_bdev(c, res) ==
    ReadOtherLoop(c, num_base_bdevs - c.io.base_bdev_io_remaining, res)

raid1_read_other_completion(c, idx, success, res) ==
    LET c0 == RemoveLeg(c, idx, "probe")
    IN  IF ~success
        THEN raid1_read_other_base_bdev(
                 [c0 EXCEPT !.io.base_bdev_io_remaining = @ - 1], res)
        ELSE raid1_correct_read_error([c0 EXCEPT !.io.alt_ok = TRUE], res)

raid1_read_bdev_io_completion(c, success, res) ==
    LET idx == c.io.base_bdev_io_submitted
        c0 == RemoveLeg(c, idx, "readv")
        c1 == raid1_channel_dec_read_counters(c0, idx, c0.io.num_blocks)
    IN  IF ~success
        THEN raid1_read_other_base_bdev(
                 [c1 EXCEPT !.io.base_bdev_io_remaining = num_base_bdevs,
                            !.io.primary_failed = TRUE], res)
        ELSE raid_bdev_io_complete(c1, "SUCCESS")

\* -------------------------------------------------- raid1.c: read dispatch
\* The scan of raid1_channel_next_read_base_bdev.  read_blocks_min starts at
\* UINT64_MAX, which no counter of the model reaches: "idx = UINT8_MAX" (no
\* base taken yet) stands for it.
M_ReadBlocksLess(blocks, read_blocks_min) == blocks <= read_blocks_min

M_ReadBlocksGreater(blocks, read_blocks_min) == blocks > read_blocks_min

ReadBlocksLess(blocks, read_blocks_min) == blocks < read_blocks_min

RECURSIVE NextReadBaseScan(_, _, _, _, _)
NextReadBaseScan(rbo, bch, i, read_blocks_min, idx) ==
    IF i >= num_base_bdevs
    THEN idx
    ELSE IF raid_bdev_channel_get_base_channel(bch, i)
            /\ (idx = UINT8_MAX \/ ReadBlocksLess(rbo[i], read_blocks_min))
         THEN NextReadBaseScan(rbo, bch, i + 1, rbo[i], i)
         ELSE NextReadBaseScan(rbo, bch, i + 1, read_blocks_min, idx)

raid1_channel_next_read_base_bdev(rbo, bch) ==
    NextReadBaseScan(rbo, bch, 0, 0, UINT8_MAX)

\* Handlers that return a value give [c, ret]: ret is "OK" for 0.
raid1_submit_read_request(c, res) ==
    LET idx == raid1_channel_next_read_base_bdev(c.rbo, base_ch)
    IN  IF idx = UINT8_MAX
        THEN [c |-> raid_bdev_io_complete(c, "FAILED"), ret |-> "OK"]
        ELSE CASE res[idx] = "ok" ->
                      [c |-> AddLeg(
                                 [raid1_channel_inc_read_counters(c, idx, c.io.num_blocks)
                                     EXCEPT !.io.base_bdev_io_submitted = idx],
                                 idx, "readv"),
                       ret |-> "OK"]
               [] res[idx] = "ENOMEM" ->
                      [c |-> raid_bdev_queue_io_wait(c, "_raid1_submit_rw_request"),
                       ret |-> "OK"]
               [] OTHER -> [c |-> c, ret |-> res[idx]]

\* ------------------------------------------------- raid1.c: write dispatch
M_NotSubmitted(c) == num_base_bdevs

\* base_bdev_io_not_submitted: the legs a failed submission stands for.
NotSubmitted(c) == num_base_bdevs - c.io.base_bdev_io_submitted

RECURSIVE WriteLoop(_, _, _, _)
WriteLoop(c, idx, res, alloc) ==
    IF idx >= num_base_bdevs
    THEN [c |-> c,
          ret |-> IF c.io.base_bdev_io_submitted = 0 THEN "ENODEV" ELSE "OK"]
    ELSE IF ~raid_bdev_channel_get_base_channel(base_ch, idx)
         THEN LET c1 == raid1_handle_faulty_base_bdev(c, idx, alloc[idx])
                  c2 == [c1 EXCEPT !.io.base_bdev_io_submitted = @ + 1]
              IN  WriteLoop(raid_bdev_io_complete_part(c2, 1, "FAILED"),
                            idx + 1, res, alloc)
         ELSE CASE res[idx] = "ok" ->
                       WriteLoop(AddLeg([c EXCEPT !.io.base_bdev_io_submitted = @ + 1],
                                        idx, "writev"),
                                 idx + 1, res, alloc)
                [] res[idx] = "ENOMEM" ->
                       [c |-> raid_bdev_queue_io_wait(c, "_raid1_submit_rw_request"),
                        ret |-> "OK"]
                [] OTHER ->
                       [c |-> raid_bdev_io_complete_part(c, NotSubmitted(c), "FAILED"),
                        ret |-> "OK"]

M_raid1_submit_write_request(c, res, alloc) ==
    LET c0 == IF c.io.base_bdev_io_submitted = 0
              THEN raid_bdev_io_set_default_status(
                       [c EXCEPT !.io.base_bdev_io_remaining = num_base_bdevs], "FAILED")
              ELSE c
    IN  WriteLoop(c0, 0, res, alloc)

raid1_submit_write_request(c, res, alloc) ==
    LET c0 == IF c.io.base_bdev_io_submitted = 0
              THEN raid_bdev_io_set_default_status(
                       [c EXCEPT !.io.base_bdev_io_remaining = num_base_bdevs], "FAILED")
              ELSE c
    IN  WriteLoop(c0, c0.io.base_bdev_io_submitted, res, alloc)

raid1_submit_rw_request(c, res, alloc) ==
    LET r == CASE c.io.type = "READ" -> raid1_submit_read_request(c, res)
               [] c.io.type = "WRITE" -> raid1_submit_write_request(c, res, alloc)
               [] OTHER -> [c |-> c, ret |-> "EINVAL"]
    IN  IF r.ret # "OK" THEN raid_bdev_io_complete(r.c, "FAILED") ELSE r.c

\* ------------------------------------------- raid1.c: unmap / flush dispatch
NullPayloadOp(type) == IF type = "UNMAP" THEN "unmap" ELSE "flush"

M_raid1_null_payload_bdev_io_completion(c, idx, success) ==
    raid_bdev_io_complete_part(
        [RemoveLeg(c, idx, NullPayloadOp(c.io.type))
            EXCEPT !.io.ok_legs = IF success THEN @ \cup {idx} ELSE @],
        1, "FAILED")

raid1_null_payload_bdev_io_completion(c, idx, success) ==
    raid_bdev_io_complete_part(
        [RemoveLeg(c, idx, NullPayloadOp(c.io.type))
            EXCEPT !.io.ok_legs = IF success THEN @ \cup {idx} ELSE @],
        1, IF success THEN "SUCCESS" ELSE "FAILED")

RECURSIVE NullPayloadLoop(_, _, _)
NullPayloadLoop(c, idx, res) ==
    IF idx >= num_base_bdevs
    THEN [c |-> c,
          ret |-> IF c.io.base_bdev_io_submitted = 0 THEN "ENODEV" ELSE "OK"]
    ELSE IF ~raid_bdev_channel_get_base_channel(base_ch, idx)
         THEN NullPayloadLoop(
                  raid_bdev_io_complete_part(
                      [c EXCEPT !.io.base_bdev_io_submitted = @ + 1], 1, "SUCCESS"),
                  idx + 1, res)
         ELSE LET ret == IF c.io.type \in {"UNMAP", "FLUSH"} THEN res[idx] ELSE "EIO"
              IN  CASE ret = "ok" ->
                           NullPayloadLoop(
                               AddLeg([c EXCEPT !.io.base_bdev_io_submitted = @ + 1],
                                      idx, NullPayloadOp(c.io.type)),
                               idx + 1, res)
                    [] ret = "ENOMEM" ->
                           [c |-> raid_bdev_queue_io_wait(
                                      c, "_raid1_submit_null_payload_request"),
                            ret |-> "OK"]
                    [] OTHER ->
                           [c |-> raid_bdev_io_complete_part(c, NotSubmitted(c), "FAILED"),
                            ret |-> "OK"]

submit_null_payload_request(c, res) ==
    LET c0 == IF c.io.base_bdev_io_submitted = 0
              THEN [c EXCEPT !.io.base_bdev_io_remaining = num_base_bdevs]
              ELSE c
    IN  NullPayloadLoop(c0, c0.io.base_bdev_io_submitted, res)

raid1_submit_null_payload_request(c, res) ==
    LET r == submit_null_payload_request(c, res)
    IN  IF r.ret # "OK" THEN raid_bdev_io_complete(r.c, "FAILED") ELSE r.c

\* ------------------------------------------ raid1.c: process request, read
\* [c, ret]: ret is what the framework gets back, "NUM_BLOCKS" standing for
\* process_req->num_blocks.
raid1_submit_process_request(c, target, res) ==
    LET c0 == [c EXCEPT !.io.process = TRUE, !.io.target = target]
        r == raid1_submit_read_request(c0, res)
    IN  IF r.ret = "OK"
        THEN [c |-> [r.c EXCEPT !.io.submit_ret = "NUM_BLOCKS"], ret |-> "NUM_BLOCKS"]
        ELSE [c |-> [r.c EXCEPT !.io.submit_ret = r.ret], ret |-> r.ret]

\* ------------------------------------------------ raid1.c: channel hand-off
\* [bm, base, st, rc]: the channel bitmap and state of the base, the bitmap the
\* raid bdev owns for it, and the return code.
RECURSIVE HandOffCopy(_, _, _, _)
HandOffCopy(chbm, basebm, i, region_block_number) ==
    IF i < region_block_number
    THEN HandOffCopy(chbm,
                     IF spdk_bit_array_get(chbm, i)
                     THEN spdk_bit_array_set(basebm, i) ELSE basebm,
                     i + 1, region_block_number)
    ELSE basebm

M_channel_faulty_base_bdev(chbm, basebm, state, newState, alloc_ok) ==
    LET region_block_number ==
            raid_bdev_delta_bitmap_region_blocks_number(optimal_io_boundary)
        same == [bm |-> chbm, base |-> basebm, st |-> newState, rc |-> "OK"]
    IN  CASE state = "NONE" /\ newState = "FAULTY" ->
                 IF alloc_ok
                 THEN [same EXCEPT !.bm = spdk_bit_array_create(region_block_number)]
                 ELSE [bm |-> NullBitArray, base |-> basebm, st |-> state,
                       rc |-> "ENOMEM"]
          [] state = "FAULTY" /\ newState = "FAULTY_STOPPED" ->
                 [same EXCEPT !.base = HandOffCopy(chbm, basebm, 0, region_block_number)]
          [] state \in {"FAULTY", "FAULTY_STOPPED"} /\ newState = "NONE" ->
                 [same EXCEPT !.bm = NullBitArray]
          [] OTHER -> same

M_Clear_channel_faulty_base_bdev(chbm, basebm, state, newState, alloc_ok) ==
    LET region_block_number ==
            raid_bdev_delta_bitmap_region_blocks_number(optimal_io_boundary)
        same == [bm |-> chbm, base |-> basebm, st |-> newState, rc |-> "OK"]
    IN  CASE state = "NONE" /\ newState = "FAULTY" ->
                 IF alloc_ok
                 THEN [same EXCEPT !.bm = spdk_bit_array_create(region_block_number)]
                 ELSE [bm |-> NullBitArray, base |-> basebm, st |-> state,
                       rc |-> "ENOMEM"]
          [] state = "FAULTY" /\ newState = "FAULTY_STOPPED" ->
                 [same EXCEPT !.base = HandOffCopy(chbm, basebm, 0, region_block_number)]
          [] state = "FAULTY_STOPPED" /\ newState = "FAULTY" ->
                 [bm |-> chbm, base |-> basebm, st |-> state, rc |-> "ENOMEM"]
          [] OTHER -> same

channel_faulty_base_bdev(chbm, basebm, state, newState, alloc_ok) ==
    LET region_block_number ==
            raid_bdev_delta_bitmap_region_blocks_number(optimal_io_boundary)
        same == [bm |-> chbm, base |-> basebm, st |-> newState, rc |-> "OK"]
    IN  CASE state = "NONE" /\ newState = "FAULTY" ->
                 IF alloc_ok
                 THEN [same EXCEPT !.bm = spdk_bit_array_create(region_block_number)]
                 ELSE [bm |-> NullBitArray, base |-> basebm, st |-> state,
                       rc |-> "ENOMEM"]
          [] state = "FAULTY" /\ newState = "FAULTY_STOPPED" ->
                 [same EXCEPT !.base = HandOffCopy(chbm, basebm, 0, region_block_number)]
          [] state \in {"FAULTY", "FAULTY_STOPPED"} /\ newState = "NONE" ->
                 [same EXCEPT !.bm = NullBitArray]
          [] state = "FAULTY_STOPPED" /\ newState = "FAULTY" ->
                 [bm |-> chbm, base |-> basebm, st |-> state, rc |-> "ENOMEM"]
          [] OTHER -> same

\* ---------------------------------------------------- raid1.c: channel grow
\* [rbo, bm, ok]: the channel's counters and bitmap handles and the return
\* value.  realloc keeps the old elements; the element at raid_ch_num_channels
\* is zeroed; the states array is not touched.
channel_grow_base_bdev(rbo, bm, raid_ch_num_channels, new_num, rbo_ok, bm_ok) ==
    IF raid_ch_num_channels # new_num
    THEN IF ~rbo_ok
         THEN [rbo |-> rbo, bm |-> bm, ok |-> FALSE]
         ELSE LET rbo1 == [rbo EXCEPT ![raid_ch_num_channels] = 0]
              IN  IF delta_bitmap_enabled
                  THEN IF ~bm_ok
                       THEN [rbo |-> rbo1, bm |-> bm, ok |-> FALSE]
                       ELSE [rbo |-> rbo1,
                             bm |-> [bm EXCEPT ![raid_ch_num_channels] = NullBitArray],
                             ok |-> TRUE]
                  ELSE [rbo |-> rbo1, bm |-> bm, ok |-> TRUE]
    ELSE [rbo |-> rbo, bm |-> bm, ok |-> TRUE]

\* The lengths of the three arrays of a channel created for
\* raid_ch_num_channels bases (raid1_ioch_create) after channel_grow_base_bdev:
\* the counters and, with delta tracking, the bitmap handles are reallocated;
\* no statement reallocates states.
GrowLengths(raid_ch_num_channels, new_num, rbo_ok, bm_ok) ==
    LET old == [rbo |-> raid_ch_num_channels,
                bm |-> IF delta_bitmap_enabled THEN raid_ch_num_channels ELSE 0,
                states |-> raid_ch_num_channels]
    IN  IF raid_ch_num_channels # new_num
        THEN IF ~rbo_ok
             THEN old
             ELSE IF delta_bitmap_enabled /\ bm_ok
                  THEN [old EXCEPT !.rbo = new_num, !.bm = new_num]
                  ELSE [old EXCEPT !.rbo = new_num]
        ELSE old

\* --------------------------------------- vbdev_lvol_rpc.c: fragmap scanner
\* uint64_t is scaled to WordBits bits and the uint32_t bit index of
\* spdk_bit_array_set to IndexBits bits; arithmetic wraps as in C.
Word == 2 ^ WordBits

UINT64_MAX == Word - 1

U64(x) == x % Word

U32(x) == x % (2 ^ IndexBits)

spdk_divide_round_up(num, divisor) == U64(num + divisor - 1) \div divisor

spdk_is_divisible_by(dividend, divisor) == dividend % divisor = 0

spdk_min(a, b) == IF a < b THEN a ELSE b

\* The logical volume: its block size in bytes, its clusters and which of
\* them are allocated.
Lvols ==
    {[block_size |-> bs, num_clusters |-> n, allocated |-> a] :
        bs \in 1 .. MaxBlockSize, n \in 1 .. MaxDevClusters,
        a \in SUBSET (0 .. (MaxDevClusters - 1))}

spdk_bs_get_cluster_size(dev) == BlocksPerCluster * dev.block_size

spdk_bdev_get_num_blocks(dev) == dev.num_clusters * BlocksPerCluster

DataBlocks(dev, from) ==
    {b \in from .. (spdk_bdev_get_num_blocks(dev) - 1) :
        (b \div BlocksPerCluster) \in dev.allocated}

HoleBlocks(dev, from) ==
    {b \in from .. (spdk_bdev_get_num_blocks(dev) - 1) :
        (b \div BlocksPerCluster) \notin dev.allocated}

Least(S) == CHOOSE x \in S : \A y \in S : x <= y

\* What a SEEK_DATA and a SEEK_HOLE from block `from` complete with.  A seek
\* that finds nothing reports UINT64_MAX; a SEEK_HOLE may also report the
\* end of the device as the hole.
SeekDataAnswers(dev, from) ==
    IF DataBlocks(dev, from) # {} THEN {Least(DataBlocks(dev, from))} ELSE {UINT64_MAX}

SeekHoleAnswers(dev, from) ==
    IF HoleBlocks(dev, from) # {}
    THEN {Least(HoleBlocks(dev, from))}
    ELSE {UINT64_MAX} \cup (IF from <= spdk_bdev_get_num_blocks(dev)
                            THEN {spdk_bdev_get_num_blocks(dev)} ELSE {})

FragRc == {"ok", "ENOMEM", "EINVAL"}

\* struct fragmap_io, with the request it serves, the seek it waits for and
\* the responses sent for the request.
NoFragmapIo ==
    [state |-> "idle", req_offset |-> 0, req_size |-> 0,
     fragmap |-> NullBitArray, cluster_size |-> 0, block_size |-> 0,
     num_allocated_clusters |-> 0, offset |-> 0, size |-> 0, current_offset |-> 0,
     seek_from |-> 0, seeks |-> 0, responses |-> 0, response |-> "none",
     result |-> [cluster_size |-> 0, num_clusters |-> 0,
                 num_allocated_clusters |-> 0, fragmap |-> {}]]

SendResponse(io, response) ==
    [io EXCEPT !.state = "done", !.response = response,
               !.responses = IF @ < 2 THEN @ + 1 ELSE @]

\* encoded_ok: spdk_bit_array_to_base64 returned a string.  The result
\* carries the bits that string encodes.
get_fragmap_done(io, error_code, encoded_ok) ==
    IF error_code # "ok"
    THEN SendResponse(io, error_code)
    ELSE IF ~encoded_ok
         THEN SendResponse(io, "INTERNAL_ERROR")
         ELSE [SendResponse(io, "result") EXCEPT
                   !.result = [cluster_size |-> io.cluster_size,
                               num_clusters |-> io.fragmap.cap,
                               num_allocated_clusters |-> io.num_allocated_clusters,
                               fragmap |-> io.fragmap.bits]]

IssueSeek(io, kind, from) ==
    [io EXCEPT !.state = kind, !.seek_from = from,
               !.seeks = IF @ < 2 THEN @ + 1 ELSE @]

seek_data_done_cb(io, next_data_offset_blocks, rc, encoded_ok) ==
    IF next_data_offset_blocks = UINT64_MAX
    THEN get_fragmap_done(io, "ok", encoded_ok)
    ELSE LET io1 == [io EXCEPT !.current_offset =
                                   U64(next_data_offset_blocks * io.block_size)]
         IN  IF rc = "ok"
             THEN IssueSeek(io1, "seek_hole",
                            spdk_divide_round_up(io1.current_offset, io1.block_size))
             ELSE get_fragmap_done(io1, rc, encoded_ok)

\* The for loop of seek_hole_done_cb: spdk_bit_array_set takes a uint32_t and
\* ignores an index at or beyond the capacity.
SetClusters(ba, start_cluster, num_clusters) ==
    [ba EXCEPT !.bits = @ \cup {j \in 0 .. (ba.cap - 1) :
                                   \E i \in 0 .. (num_clusters - 1) :
                                       U32(U64(start_cluster + i)) = j}]

SeekHoleNextOffset(io, seek_offset) ==
    spdk_min(U64(seek_offset * io.block_size), U64(io.offset + io.size))

seek_hole_done_cb(io, seek_offset, rc, encoded_ok) ==
    LET next_offset == SeekHoleNextOffset(io, seek_offset)
        start_cluster ==
            spdk_divide_round_up(U64(io.current_offset - io.offset), io.cluster_size)
        num_clusters ==
            spdk_divide_round_up(U64(next_offset - io.current_offset), io.cluster_size)
        io1 == [io EXCEPT !.fragmap = SetClusters(@, start_cluster, num_clusters),
                          !.num_allocated_clusters = U64(@ + num_clusters),
                          !.current_offset = next_offset]
    IN  IF io1.current_offset = U64(io1.offset + io1.size)
        THEN get_fragmap_done(io1, "ok", encoded_ok)
        ELSE IF rc = "ok"
             THEN IssueSeek(io1, "seek_data",
                            spdk_divide_round_up(io1.current_offset, io1.block_size))
             ELSE get_fragmap_done(io1, rc, encoded_ok)

\* env: whether the JSON decodes, what the name finds, and the outcomes of
\* the allocations, the open and the first seek.  The return value of the
\* first spdk_bdev_seek_data is not looked at: when it is an error no
\* callback follows and the request stays without a response ("lost").
rpc_bdev_lvol_get_fragmap(dev, offset, size, env) ==
    LET req == [NoFragmapIo EXCEPT !.req_offset = offset, !.req_size = size]
        cluster_size == spdk_bs_get_cluster_size(dev)
        block_size == dev.block_size
        num_blocks == spdk_bdev_get_num_blocks(dev)
        lvol_size == U64(num_blocks * block_size)
        segment_size == IF size = 0 THEN lvol_size ELSE size
        num_clusters == spdk_divide_round_up(segment_size, cluster_size)
    IN  IF ~env.decode_ok THEN SendResponse(req, "INTERNAL_ERROR")
        ELSE IF env.lookup # "lvol" THEN SendResponse(req, "ENODEV")
        ELSE IF U64(offset + size) > lvol_size THEN SendResponse(req, "EINVAL")
        ELSE IF ~spdk_is_divisible_by(offset, cluster_size)
                \/ ~spdk_is_divisible_by(segment_size, cluster_size)
             THEN SendResponse(req, "EINVAL")
        ELSE IF ~env.fragmap_ok THEN SendResponse(req, "ENOMEM")
        ELSE IF env.open_rc # "ok" THEN SendResponse(req, env.open_rc)
        ELSE IF ~env.channel_ok \/ ~env.io_ok THEN SendResponse(req, "ENOMEM")
        ELSE LET io == [req EXCEPT !.fragmap = spdk_bit_array_create(num_clusters),
                                   !.block_size = block_size,
                                   !.cluster_size = cluster_size,
                                   !.offset = offset,
                                   !.size = segment_size,
                                   !.current_offset = offset]
             IN  IF env.seek_rc = "ok"
                 THEN IssueSeek(io, "seek_data",
                                spdk_divide_round_up(offset, block_size))
                 ELSE [io EXCEPT !.state = "lost"]

\* --------------------------------------------- raid1.c: start and resize
\* uint32_t is scaled to IndexBits bits, uint64_t to WordBits bits.
UINT32_MAX == (2 ^ IndexBits) - 1

RECURSIVE M_StartScan(_, _, _, _)
M_StartScan(info, i, min_blockcnt, min_optimal_io_boundary) ==
    IF i >= num_base_bdevs
    THEN [min_blockcnt |-> min_blockcnt,
          min_optimal_io_boundary |-> min_optimal_io_boundary]
    ELSE IF info[i].desc
         THEN M_StartScan(info, i + 1, spdk_min(min_blockcnt, info[i].data_size),
                          spdk_min(min_optimal_io_boundary, info[i].optimal_io_boundary))
         ELSE M_StartScan(info, i + 1, min_blockcnt, min_optimal_io_boundary)

\* The first RAID_FOR_EACH_BASE_BDEV loop of raid1_start.
RECURSIVE StartScan(_, _, _, _)
StartScan(info, i, min_blockcnt, min_optimal_io_boundary) ==
    IF i >= num_base_bdevs
    THEN [min_blockcnt |-> min_blockcnt,
          min_optimal_io_boundary |-> min_optimal_io_boundary]
    ELSE StartScan(info, i + 1, spdk_min(min_blockcnt, info[i].data_size),
                   IF info[i].desc
                   THEN spdk_min(min_optimal_io_boundary, info[i].optimal_io_boundary)
                   ELSE min_optimal_io_boundary)

SetDataSize(info, size) ==
    [b \in DOMAIN info |->
        IF b < num_base_bdevs THEN [info[b] EXCEPT !.data_size = size] ELSE info[b]]

\* [rc, info, blockcnt, optimal_io_boundary, module_private,
\* io_device_registered]
M_raid1_start(info, calloc_ok) ==
    LET m == StartScan(info, 0, UINT64_MAX, UINT32_MAX)
    IN  IF ~calloc_ok
        THEN [rc |-> "ENOMEM", info |-> info, blockcnt |-> blockcnt,
              optimal_io_boundary |-> optimal_io_boundary,
              module_private |-> FALSE, io_device_registered |-> FALSE]
        ELSE [rc |-> "OK",
              info |-> SetDataSize(info, m.min_blockcnt),
              blockcnt |-> m.min_blockcnt,
              optimal_io_boundary |-> m.min_optimal_io_boundary,
              module_private |-> TRUE, io_device_registered |-> TRUE]

raid1_start(info, calloc_ok) ==
    LET failed(rc) == [rc |-> rc, info |-> info, blockcnt |-> blockcnt,
                       optimal_io_boundary |-> optimal_io_boundary,
                       module_private |-> FALSE, io_device_registered |-> FALSE]
        m == StartScan(info, 0, UINT64_MAX, UINT32_MAX)
    IN  IF ~calloc_ok
        THEN failed("ENOMEM")
        ELSE IF delta_bitmap_enabled /\ m.min_optimal_io_boundary = 0
             THEN failed("EINVAL")
             ELSE [rc |-> "OK",
                   info |-> SetDataSize(info, m.min_blockcnt),
                   blockcnt |-> m.min_blockcnt,
                   optimal_io_boundary |-> m.min_optimal_io_boundary,
                   module_private |-> TRUE, io_device_registered |-> TRUE]

\* spdk_bdev_notify_blockcnt_change: the new block count of the raid bdev
\* when the bdev layer accepts it.
spdk_bdev_notify_blockcnt_change(cur, size, accepted) ==
    IF accepted THEN [rc |-> "OK", blockcnt |-> size]
                ELSE [rc |-> "EBUSY", blockcnt |-> cur]

RECURSIVE ResizeScan(_, _, _)
ResizeScan(info, i, min_blockcnt) ==
    IF i >= num_base_bdevs
    THEN min_blockcnt
    ELSE ResizeScan(info, i + 1,
                    IF info[i].desc
                    THEN spdk_min(min_blockcnt,
                                  U64(info[i].blockcnt - info[i].data_offset))
                    ELSE min_blockcnt)

\* [ret, info, blockcnt]
M_raid1_resize(info, accepted) ==
    LET min_blockcnt == ResizeScan(info, 0, UINT64_MAX)
        n == spdk_bdev_notify_blockcnt_change(blockcnt, min_blockcnt, accepted)
    IN  IF min_blockcnt = blockcnt
        THEN [ret |-> FALSE, info |-> info, blockcnt |-> blockcnt]
        ELSE [ret |-> n.rc = "OK", info |-> SetDataSize(info, min_blockcnt),
              blockcnt |-> n.blockcnt]

raid1_resize(info, accepted) ==
    LET min_blockcnt == ResizeScan(info, 0, UINT64_MAX)
        n == spdk_bdev_notify_blockcnt_change(blockcnt, min_blockcnt, accepted)
    IN  IF min_blockcnt = blockcnt
        THEN [ret |-> FALSE, info |-> info, blockcnt |-> blockcnt]
        ELSE IF n.rc # "OK"
             THEN [ret |-> FALSE, info |-> info, blockcnt |-> n.blockcnt]
             ELSE [ret |-> TRUE, info |-> SetDataSize(info, min_blockcnt),
                   blockcnt |-> n.blockcnt]

\* ------------------------------------------------------------------ actions
IoSlots == DOMAIN ios

Ranges == {r \in (0 .. (blockcnt - 1)) \X (1 .. MaxNumBlocks) : r[1] + r[2] <= blockcnt}

\* What the environment answers: a result for every submission a handler can
\* make (only present base channels are submitted to) and the outcome of every
\* bit array allocation it can ask for (only where a bitmap is missing).
SubmitOutcomes ==
    {res \in [DOMAIN base_ch -> SubmitResults] :
         \A b \in DOMAIN base_ch : ~base_ch[b] => res[b] = "ok"}

AllocNeeded(b) ==
    delta_bitmap_enabled /\ b < num_base_bdevs /\ delta_bitmaps[b] = NullBitArray

AllocOutcomes ==
    {alloc \in [DOMAIN base_ch -> BOOLEAN] :
         \A b \in DOMAIN base_ch : ~AllocNeeded(b) => alloc[b]}

AllocOutcome(b) == IF AllocNeeded(b) THEN BOOLEAN ELSE {TRUE}

\* A base that leaves FAULTY is no longer one "FAULTY since the request began".
StillFaulty(io, st) == [io EXCEPT !.faulty_since = {b \in @ : st[b] = "FAULTY"}]

Commit(k, c) ==
    /\ ios' = [j \in IoSlots |-> StillFaulty(IF j = k THEN c.io ELSE ios[j], c.st)]
    /\ read_blocks_outstanding' = c.rbo
    /\ delta_bitmaps' = c.bm
    /\ states' = c.st
    /\ UNCHANGED <<base_ch, base_delta_bitmap, delta_bitmap_enabled, blockcnt,
                   optimal_io_boundary, num_base_bdevs, lvol, fragmap_io,
                   base_bdev_info, module_private, channels>>

NewCtx(k, type, r) ==
    [Ctx(k) EXCEPT !.io = raid_bdev_io_init(type, r[1], r[2], states)]

SubmitRead(k) ==
    /\ ios[k].phase = "free"
    /\ \E r \in Ranges, res \in SubmitOutcomes, alloc \in AllocOutcomes :
           Commit(k, raid1_submit_rw_request(NewCtx(k, "READ", r), res, alloc))

SubmitWrite(k) ==
    /\ ios[k].phase = "free"
    /\ \E r \in Ranges, res \in SubmitOutcomes, alloc \in AllocOutcomes :
           Commit(k, raid1_submit_rw_request(NewCtx(k, "WRITE", r), res, alloc))

SubmitNullPayload(k) ==
    /\ ios[k].phase = "free"
    /\ \E type \in {"UNMAP", "FLUSH"}, r \in Ranges, res \in SubmitOutcomes :
           Commit(k, raid1_submit_null_payload_request(NewCtx(k, type, r), res))

\* The framework hands a process request to the module.  A request whose
\* submission returned an error was not taken: the framework keeps it.
SubmitProcessRequest(k) ==
    /\ ios[k].phase = "free"
    /\ \E r \in Ranges, target \in Bases, res \in SubmitOutcomes, tres \in SubmitResults :
           LET c == [NewCtx(k, "READ", r) EXCEPT !.tres = tres]
               s == raid1_submit_process_request(c, target, res)
           IN  Commit(k, IF s.ret = "NUM_BLOCKS"
                         THEN s.c
                         ELSE [s.c EXCEPT !.io.phase = "rejected"])

\* What the target of the process request in slot k may answer.
TargetOutcomes(k) == IF ios[k].process THEN SubmitResults ELSE {"ok"}

CtxT(k, tres) == [Ctx(k) EXCEPT !.tres = tres]

\* The base bdev an ENOMEM was queued on calls the resume function.
IoWaitResume(k) ==
    /\ ios[k].io_wait # "none"
    /\ \E res \in SubmitOutcomes, alloc \in AllocOutcomes, tres \in TargetOutcomes(k) :
           LET fn == ios[k].io_wait
               c == [CtxT(k, tres) EXCEPT !.io.io_wait = "none"]
           IN  Commit(k,
                   CASE fn = "_raid1_submit_rw_request" ->
                            raid1_submit_rw_request(c, res, alloc)
                     [] fn = "_raid1_submit_null_payload_request" ->
                            raid1_submit_null_payload_request(c, res)
                     [] fn = "raid1_read_other_base_bdev" ->
                            raid1_read_other_base_bdev(c, res)
                     [] fn = "raid1_correct_read_error" ->
                            raid1_correct_read_error(c, res)
                     [] fn = "_raid1_process_submit_write" ->
                            raid1_process_submit_write(c))

WriteCompletion(k) ==
    \E leg \in ios[k].legs, success \in BOOLEAN :
      \E alloc_ok \in AllocOutcome(leg[1]) :
        /\ leg[2] = "writev"
        /\ Commit(k, raid1_write_bdev_io_completion(Ctx(k), leg[1], success, alloc_ok))

NullPayloadCompletion(k) ==
    \E leg \in ios[k].legs, success \in BOOLEAN :
        /\ leg[2] \in {"unmap", "flush"}
        /\ Commit(k, raid1_null_payload_bdev_io_completion(Ctx(k), leg[1], success))

ReadCompletion(k) ==
    \E leg \in ios[k].legs, success \in BOOLEAN, res \in SubmitOutcomes :
      \E tres \in TargetOutcomes(k) :
        /\ leg[2] = "readv"
        /\ Commit(k, raid1_read_bdev_io_completion(CtxT(k, tres), success, res))

ReadOtherCompletion(k) ==
    \E leg \in ios[k].legs, success \in BOOLEAN, res \in SubmitOutcomes :
      \E tres \in TargetOutcomes(k) :
        /\ leg[2] = "probe"
        /\ Commit(k, raid1_read_other_completion(CtxT(k, tres), leg[1], success, res))

CorrectReadErrorCompletion(k) ==
    \E leg \in ios[k].legs, success \in BOOLEAN, tres \in TargetOutcomes(k) :
      \E alloc_ok \in AllocOutcome(leg[1]) :
        /\ leg[2] = "writeback"
        /\ Commit(k, raid1_correct_read_error_completion(CtxT(k, tres), success, alloc_ok))

ProcessWriteCompletion(k) ==
    \E leg \in ios[k].legs, success \in BOOLEAN :
        /\ leg[2] = "process_write"
        /\ Commit(k, raid1_process_write_completed(Ctx(k), success))

\* The bdev layer, or the process framework, releases a completed request (or
\* one it could not submit); its slot can be used again.
ReleaseIo(k) ==
    /\ ios[k].phase \in {"done", "rejected"}
    /\ ios' = [ios EXCEPT ![k] = FreeIo]
    /\ UNCHANGED <<read_blocks_outstanding, delta_bitmaps, states, base_ch,
                   base_delta_bitmap, delta_bitmap_enabled, blockcnt,
                   optimal_io_boundary, num_base_bdevs, lvol, fragmap_io,
                   base_bdev_info, module_private, channels>>

\* The framework asks the channel to move a base to newState.
ChannelFaultyBaseBdev(idx, newState) ==
    /\ delta_bitmap_enabled
    /\ idx < num_base_bdevs
    /\ \E alloc_ok \in AllocOutcome(idx) :
           LET r == channel_faulty_base_bdev(delta_bitmaps[idx], base_delta_bitmap[idx],
                                             states[idx], newState, alloc_ok)
               st == [states EXCEPT ![idx] = r.st]
           IN  /\ delta_bitmaps' = [delta_bitmaps EXCEPT ![idx] = r.bm]
               /\ base_delta_bitmap' = [base_delta_bitmap EXCEPT ![idx] = r.base]
               /\ states' = st
               /\ ios' = [j \in IoSlots |-> StillFaulty(ios[j], st)]
    /\ UNCHANGED <<read_blocks_outstanding, base_ch, delta_bitmap_enabled, blockcnt,
                   optimal_io_boundary, num_base_bdevs, lvol, fragmap_io,
                   base_bdev_info, module_private, channels>>

\* A base bdev is added to the raid bdev and the channel is grown for it.  The
\* states array keeps its old length, so the state of the new base is whatever
\* lies behind the array: any base_bdev_state.  A failed grow leaves the raid
\* bdev with the bases it had.
ChannelGrowBaseBdev ==
    /\ num_base_bdevs < NumBaseBdevs
    /\ \E realloc_rbo_ok \in BOOLEAN, realloc_bm_ok \in BOOLEAN,
          present \in BOOLEAN, stale \in BaseStates :
           LET idx == num_base_bdevs
               r == channel_grow_base_bdev(read_blocks_outstanding, delta_bitmaps,
                                           idx, idx + 1, realloc_rbo_ok, realloc_bm_ok)
           IN  /\ read_blocks_outstanding' = r.rbo
               /\ delta_bitmaps' = r.bm
               /\ IF r.ok
                  THEN /\ num_base_bdevs' = idx + 1
                       /\ states' = [states EXCEPT ![idx] = stale]
                       /\ base_ch' = [base_ch EXCEPT ![idx] = present]
                  ELSE UNCHANGED <<num_base_bdevs, states, base_ch>>
    /\ UNCHANGED <<ios, base_delta_bitmap, delta_bitmap_enabled, blockcnt,
                   optimal_io_boundary, lvol, fragmap_io, base_bdev_info,
                   module_private, channels>>

\* ------------------------------------------------------- further channels
\* Every thread that uses the raid bdev has its own channel: its own
\* raid1_io_channel (counters, bitmap handles, states) and its own requests,
\* here one at a time.  The raid bdev, its bases and the delta bitmaps it owns
\* are shared.
ChannelIds == DOMAIN channels

NoChannels == [p \in {} |-> 0]

\* raid1_ioch_create
NewChannel ==
    [io |-> FreeIo, rbo |-> [b \in Bases |-> 0],
     bm |-> [b \in Bases |-> NullBitArray], st |-> [b \in Bases |-> "NONE"]]

ChCtx(p) == [io |-> channels[p].io, rbo |-> channels[p].rbo, bm |-> channels[p].bm,
             st |-> channels[p].st, tres |-> "ok"]

ChAllocOutcomes(p) ==
    {alloc \in [Bases -> BOOLEAN] :
         \A b \in Bases : channels[p].bm[b] # NullBitArray => alloc[b]}

ChAllocOutcome(p, b) ==
    IF channels[p].bm[b] = NullBitArray THEN BOOLEAN ELSE {TRUE}

\* The request of a further channel is kept as struct raid_bdev_io holds it,
\* without the history the requests of the first channel carry.
ChIo(io) ==
    [FreeIo EXCEPT !.phase = io.phase, !.type = io.type,
                   !.offset_blocks = io.offset_blocks, !.num_blocks = io.num_blocks,
                   !.base_bdev_io_submitted = io.base_bdev_io_submitted,
                   !.base_bdev_io_remaining = io.base_bdev_io_remaining,
                   !.base_bdev_io_status = io.base_bdev_io_status,
                   !.base_bdev_io_status_default = io.base_bdev_io_status_default,
                   !.io_wait = io.io_wait, !.legs = io.legs, !.status = io.status]

ChCommit(p, c) ==
    /\ channels' = [channels EXCEPT
                        ![p] = [io |-> ChIo(c.io), rbo |-> c.rbo,
                                bm |-> c.bm, st |-> c.st]]
    /\ UNCHANGED <<ios, read_blocks_outstanding, delta_bitmaps, states, base_ch,
                   base_delta_bitmap, delta_bitmap_enabled, blockcnt,
                   optimal_io_boundary, num_base_bdevs, lvol, fragmap_io,
                   base_bdev_info, module_private>>

\* The requests of these channels cover the whole raid bdev.
ChRanges == {r \in Ranges : r[2] = blockcnt}

ChSubmit(p) ==
    /\ channels[p].io.phase = "free"
    /\ \E type \in {"READ", "WRITE"}, r \in ChRanges, res \in SubmitOutcomes :
         \E alloc \in ChAllocOutcomes(p) :
           LET c == [ChCtx(p) EXCEPT
                         !.io = raid_bdev_io_init(type, r[1], r[2], channels[p].st)]
           IN  ChCommit(p, raid1_submit_rw_request(c, res, alloc))

ChIoWaitResume(p) ==
    /\ channels[p].io.io_wait # "none"
    /\ \E res \in SubmitOutcomes, alloc \in ChAllocOutcomes(p) :
           LET fn == channels[p].io.io_wait
               c == [ChCtx(p) EXCEPT !.io.io_wait = "none"]
           IN  ChCommit(p,
                   CASE fn = "_raid1_submit_rw_request" ->
                            raid1_submit_rw_request(c, res, alloc)
                     [] fn = "raid1_read_other_base_bdev" ->
                            raid1_read_other_base_bdev(c, res)
                     [] fn = "raid1_correct_read_error" ->
                            raid1_correct_read_error(c, res))

ChCompletion(p) ==
    \E leg \in channels[p].io.legs, success \in BOOLEAN, res \in SubmitOutcomes :
      \E alloc_ok \in ChAllocOutcome(p, leg[1]) :
        ChCommit(p,
            CASE leg[2] = "writev" ->
                     raid1_write_bdev_io_completion(ChCtx(p), leg[1], success, alloc_ok)
              [] leg[2] = "readv" ->
                     raid1_read_bdev_io_completion(ChCtx(p), success, res)
              [] leg[2] = "probe" ->
                     raid1_read_other_completion(ChCtx(p), leg[1], success, res)
              [] leg[2] = "writeback" ->
                     raid1_correct_read_error_completion(ChCtx(p), success, alloc_ok))

ChReleaseIo(p) ==
    /\ channels[p].io.phase = "done"
    /\ ChCommit(p, [ChCtx(p) EXCEPT !.io = FreeIo])

\* The framework asks channel p to move a missing base to newState.
ChFaultyBaseBdev(p, idx, newState) ==
    /\ delta_bitmap_enabled
    /\ idx < num_base_bdevs
    /\ ~base_ch[idx]
    /\ \E alloc_ok \in ChAllocOutcome(p, idx) :
           LET ch == channels[p]
               r == channel_faulty_base_bdev(ch.bm[idx], base_delta_bitmap[idx],
                                             ch.st[idx], newState, alloc_ok)
               st == [ch.st EXCEPT ![idx] = r.st]
           IN  /\ channels' = [channels EXCEPT
                                   ![p] = [io |-> ch.io, rbo |-> ch.rbo,
                                           bm |-> [ch.bm EXCEPT ![idx] = r.bm],
                                           st |-> st]]
               /\ base_delta_bitmap' = [base_delta_bitmap EXCEPT ![idx] = r.base]
    /\ UNCHANGED <<ios, read_blocks_outstanding, delta_bitmaps, states, base_ch,
                   delta_bitmap_enabled, blockcnt, optimal_io_boundary,
                   num_base_bdevs, lvol, fragmap_io, base_bdev_info, module_private>>

\* ---------------------------------------------------------- specifications
\* No fragmap is asked for in the specifications of the raid1 module.
NoLvol == [block_size |-> 1, num_clusters |-> 1, allocated |-> {}]

\* The raid bdev of a channel has been started: every base has the data size
\* raid1_start gave it.
InitRaidBdev ==
    /\ base_bdev_info = [b \in DOMAIN base_ch |->
                            [desc |-> TRUE, data_size |-> blockcnt, data_offset |-> 0,
                             blockcnt |-> blockcnt,
                             optimal_io_boundary |-> optimal_io_boundary]]
    /\ module_private = TRUE

InitChannel ==
    /\ read_blocks_outstanding = [b \in Bases |-> 0]
    /\ delta_bitmaps = [b \in Bases |-> NullBitArray]
    /\ states = [b \in Bases |-> "NONE"]
    /\ lvol = NoLvol
    /\ fragmap_io = NoFragmapIo

\* Spec: the I/O state machine of a raid bdev without delta tracking
\* (raid1_ioch_create leaves delta_bitmaps NULL), MaxIo requests at a time.
Init ==
    /\ ios = [k \in 1 .. MaxIo |-> FreeIo]
    /\ InitChannel
    /\ num_base_bdevs = NumBaseBdevs
    /\ base_ch \in [Bases -> BOOLEAN]
    /\ delta_bitmap_enabled = FALSE
    /\ blockcnt = MaxNumBlocks
    /\ optimal_io_boundary = 0
    /\ base_delta_bitmap = [b \in Bases |-> NullBitArray]
    /\ InitRaidBdev
    /\ channels = NoChannels

Completion(k) ==
    \/ WriteCompletion(k)
    \/ NullPayloadCompletion(k)
    \/ ReadCompletion(k)
    \/ ReadOtherCompletion(k)
    \/ CorrectReadErrorCompletion(k)

Next ==
    \/ \E k \in IoSlots : SubmitRead(k)
    \/ \E k \in IoSlots : SubmitWrite(k)
    \/ \E k \in IoSlots : SubmitNullPayload(k)
    \/ \E k \in IoSlots : IoWaitResume(k)
    \/ \E k \in IoSlots : Completion(k)
    \/ \E k \in IoSlots : ReleaseIo(k)

Spec == Init /\ [][Next]_vars

\* SpecDelta: one request at a time on a raid bdev with delta tracking, the
\* framework handing bases over between NONE, FAULTY and FAULTY_STOPPED and
\* adding a base at any moment.  raid1_start has set blockcnt and a non-zero
\* optimal_io_boundary.
InitDelta ==
    /\ ios = [k \in {1} |-> FreeIo]
    /\ InitChannel
    /\ num_base_bdevs \in 1 .. NumBaseBdevs
    /\ base_ch \in {bch \in [Bases -> BOOLEAN] :
                       \A b \in Bases : b >= num_base_bdevs => ~bch[b]}
    /\ delta_bitmap_enabled = TRUE
    /\ blockcnt \in MaxNumBlocks .. MaxBlockcnt
    /\ optimal_io_boundary \in 1 .. MaxNumBlocks
    /\ CeilDiv(blockcnt, optimal_io_boundary) <= MaxRegions
    /\ base_delta_bitmap =
           [b \in Bases |->
               spdk_bit_array_create(CeilDiv(blockcnt, optimal_io_boundary))]
    /\ InitRaidBdev
    /\ channels = NoChannels

NextDelta ==
    \/ \E k \in IoSlots : SubmitRead(k)
    \/ \E k \in IoSlots : SubmitWrite(k)
    \/ \E k \in IoSlots : IoWaitResume(k)
    \/ \E k \in IoSlots : WriteCompletion(k)
    \/ \E k \in IoSlots : ReadCompletion(k)
    \/ \E k \in IoSlots : ReadOtherCompletion(k)
    \/ \E k \in IoSlots : CorrectReadErrorCompletion(k)
    \/ \E k \in IoSlots : ReleaseIo(k)
    \/ \E idx \in Bases, newState \in BaseStates : ChannelFaultyBaseBdev(idx, newState)
    \/ ChannelGrowBaseBdev

SpecDelta == InitDelta /\ [][NextDelta]_vars

\* SpecHandOff: the channel of a raid bdev with delta tracking and a fixed set
\* of bases: one request at a time and the framework's hand-offs, no base is
\* added.
InitHandOff == InitDelta /\ num_base_bdevs = NumBaseBdevs

NextHandOff ==
    \/ \E k \in IoSlots : SubmitRead(k)
    \/ \E k \in IoSlots : SubmitWrite(k)
    \/ \E k \in IoSlots : IoWaitResume(k)
    \/ \E k \in IoSlots : WriteCompletion(k)
    \/ \E k \in IoSlots : ReadCompletion(k)
    \/ \E k \in IoSlots : ReadOtherCompletion(k)
    \/ \E k \in IoSlots : CorrectReadErrorCompletion(k)
    \/ \E k \in IoSlots : ReleaseIo(k)
    \/ \E idx \in Bases, newState \in BaseStates : ChannelFaultyBaseBdev(idx, newState)

SpecHandOff == InitHandOff /\ [][NextHandOff]_vars

\* SpecChannels: NumChannels channels of one raid bdev with delta tracking
\* whose base 0 is present and whose other bases are missing, each channel
\* with one request at a time and its own hand-offs.
InitChannels ==
    /\ ios = [k \in {1} |-> FreeIo]
    /\ InitChannel
    /\ num_base_bdevs = NumBaseBdevs
    /\ base_ch = [b \in Bases |-> b = 0]
    /\ delta_bitmap_enabled = TRUE
    /\ blockcnt = MaxNumBlocks
    /\ optimal_io_boundary = 1
    /\ base_delta_bitmap =
           [b \in Bases |->
               spdk_bit_array_create(CeilDiv(blockcnt, optimal_io_boundary))]
    /\ InitRaidBdev
    /\ channels = [p \in 1 .. NumChannels |-> NewChannel]

NextChannels ==
    \/ \E p \in ChannelIds : ChSubmit(p)
    \/ \E p \in ChannelIds : ChIoWaitResume(p)
    \/ \E p \in ChannelIds : ChCompletion(p)
    \/ \E p \in ChannelIds : ChReleaseIo(p)
    \/ \E p \in ChannelIds, idx \in Bases, newState \in BaseStates :
           ChFaultyBaseBdev(p, idx, newState)

SpecChannels == InitChannels /\ [][NextChannels]_vars

\* SpecLB: the read dispatcher alone, with every base channel present, base
\* bdevs that accept and complete every read, and reads of one size.
InitLB ==
    /\ ios = [k \in 1 .. LBReads |-> FreeIo]
    /\ InitChannel
    /\ num_base_bdevs = NumBaseBdevs
    /\ base_ch = [b \in Bases |-> TRUE]
    /\ delta_bitmap_enabled = FALSE
    /\ blockcnt = MaxNumBlocks
    /\ optimal_io_boundary = 0
    /\ base_delta_bitmap = [b \in Bases |-> NullBitArray]
    /\ InitRaidBdev
    /\ channels = NoChannels

LBSubmitRead(k) ==
    /\ SubmitRead(k)
    /\ ios'[k].legs # {}
    /\ ios'[k].offset_blocks = 0
    /\ ios'[k].num_blocks = MaxNumBlocks

LBReadCompletion(k) ==
    /\ ReadCompletion(k)
    /\ ios'[k].phase = "done"
    /\ ios'[k].status = "SUCCESS"

NextLB ==
    \/ \E k \in IoSlots : LBSubmitRead(k)
    \/ \E k \in IoSlots : LBReadCompletion(k)
    \/ \E k \in IoSlots : ReleaseIo(k)

SpecLB == InitLB /\ [][NextLB]_vars

\* SpecLive: the I/O state machine of Spec with LiveIo requests at a time and
\* the base bdev layer doing its part: every base I/O it accepted completes,
\* and a parked request is resumed until a resume gets past -ENOMEM.
InitLive ==
    /\ ios = [k \in 1 .. LiveIo |-> FreeIo]
    /\ InitChannel
    /\ num_base_bdevs = NumBaseBdevs
    /\ base_ch \in [Bases -> BOOLEAN]
    /\ delta_bitmap_enabled = FALSE
    /\ blockcnt = MaxNumBlocks
    /\ optimal_io_boundary = 0
    /\ base_delta_bitmap = [b \in Bases |-> NullBitArray]
    /\ InitRaidBdev
    /\ channels = NoChannels

ResumeAccepted(k) == IoWaitResume(k) /\ ios'[k].io_wait = "none"

SpecLive ==
    /\ InitLive
    /\ [][Next]_vars
    /\ \A k \in 1 .. LiveIo : WF_vars(Completion(k)) /\ WF_vars(ResumeAccepted(k))

\* SpecProcess: one request at a time on a raid bdev without delta tracking,
\* the request being a bdev I/O or a process request of the rebuild.
NextProcess ==
    \/ \E k \in IoSlots : SubmitProcessRequest(k)
    \/ \E k \in IoSlots : ProcessWriteCompletion(k)
    \/ Next

SpecProcess == InitLive /\ [][NextProcess]_vars

\* SpecFragmap: one bdev_lvol_get_fragmap request on a logical volume of any
\* layout; no raid bdev takes part.
FragmapEnvs ==
    [decode_ok : BOOLEAN, lookup : {"none", "not_lvol", "lvol"}, fragmap_ok : BOOLEAN,
     open_rc : FragRc, channel_ok : BOOLEAN, io_ok : BOOLEAN, seek_rc : FragRc]

\* Offsets and sizes a request may carry: everything up to one byte past the
\* volume, and the largest cluster-aligned 64-bit value.
ReqValues(dev) ==
    (0 .. (spdk_bdev_get_num_blocks(dev) * dev.block_size + 1))
        \cup {Word - spdk_bs_get_cluster_size(dev)}

RaidUnchanged ==
    UNCHANGED <<ios, read_blocks_outstanding, delta_bitmaps, states, base_ch,
                base_delta_bitmap, delta_bitmap_enabled, blockcnt,
                optimal_io_boundary, num_base_bdevs, base_bdev_info,
                module_private, channels>>

RpcBdevLvolGetFragmap ==
    /\ fragmap_io.state = "idle"
    /\ \E offset \in ReqValues(lvol), size \in ReqValues(lvol), env \in FragmapEnvs :
           fragmap_io' = rpc_bdev_lvol_get_fragmap(lvol, offset, size, env)
    /\ UNCHANGED lvol
    /\ RaidUnchanged

SeekDataDone ==
    /\ fragmap_io.state = "seek_data"
    /\ \E b \in SeekDataAnswers(lvol, fragmap_io.seek_from), rc \in FragRc :
         \E encoded_ok \in BOOLEAN :
           fragmap_io' = seek_data_done_cb(fragmap_io, b, rc, encoded_ok)
    /\ UNCHANGED lvol
    /\ RaidUnchanged

SeekHoleDone ==
    /\ fragmap_io.state = "seek_hole"
    /\ \E b \in SeekHoleAnswers(lvol, fragmap_io.seek_from), rc \in FragRc :
         \E encoded_ok \in BOOLEAN :
           fragmap_io' = seek_hole_done_cb(fragmap_io, b, rc, encoded_ok)
    /\ UNCHANGED lvol
    /\ RaidUnchanged

InitFragmap ==
    /\ ios = [k \in {1} |-> FreeIo]
    /\ read_blocks_outstanding = [b \in Bases |-> 0]
    /\ delta_bitmaps = [b \in Bases |-> NullBitArray]
    /\ states = [b \in Bases |-> "NONE"]
    /\ num_base_bdevs = NumBaseBdevs
    /\ base_ch = [b \in Bases |-> TRUE]
    /\ delta_bitmap_enabled = FALSE
    /\ blockcnt = MaxNumBlocks
    /\ optimal_io_boundary = 0
    /\ base_delta_bitmap = [b \in Bases |-> NullBitArray]
    /\ lvol \in {dev \in Lvols : dev.allocated \subseteq 0 .. (dev.num_clusters - 1)}
    /\ fragmap_io = NoFragmapIo
    /\ InitRaidBdev
    /\ channels = NoChannels

NextFragmap ==
    \/ RpcBdevLvolGetFragmap
    \/ SeekDataDone
    \/ SeekHoleDone

SpecFragmap == InitFragmap /\ [][NextFragmap]_vars

\* SpecProbe: one READ at a time on a raid bdev of ProbeBaseBdevs bases without
\* delta tracking, so that read-repair has more than one alternate to try.
ProbeBases == 0 .. (ProbeBaseBdevs - 1)

InitProbe ==
    /\ ios = [k \in {1} |-> FreeIo]
    /\ read_blocks_outstanding = [b \in ProbeBases |-> 0]
    /\ delta_bitmaps = [b \in ProbeBases |-> NullBitArray]
    /\ states = [b \in ProbeBases |-> "NONE"]
    /\ num_base_bdevs = ProbeBaseBdevs
    /\ base_ch \in [ProbeBases -> BOOLEAN]
    /\ delta_bitmap_enabled = FALSE
    /\ blockcnt = MaxNumBlocks
    /\ optimal_io_boundary = 0
    /\ base_delta_bitmap = [b \in ProbeBases |-> NullBitArray]
    /\ lvol = NoLvol
    /\ fragmap_io = NoFragmapIo
    /\ InitRaidBdev
    /\ channels = NoChannels

NextProbe ==
    \/ \E k \in IoSlots : SubmitRead(k)
    \/ \E k \in IoSlots : IoWaitResume(k)
    \/ \E k \in IoSlots : ReadCompletion(k)
    \/ \E k \in IoSlots : ReadOtherCompletion(k)
    \/ \E k \in IoSlots : CorrectReadErrorCompletion(k)
    \/ \E k \in IoSlots : ReleaseIo(k)

SpecProbe == InitProbe /\ [][NextProbe]_vars

\* SpecRepair: MaxIo READs at a time on a raid bdev of ProbeBaseBdevs bases
\* without delta tracking: with a read outstanding on a lower base, the
\* primary read of the next one goes to a base in the middle.
InitRepair ==
    /\ ios = [k \in 1 .. MaxIo |-> FreeIo]
    /\ read_blocks_outstanding = [b \in ProbeBases |-> 0]
    /\ delta_bitmaps = [b \in ProbeBases |-> NullBitArray]
    /\ states = [b \in ProbeBases |-> "NONE"]
    /\ num_base_bdevs = ProbeBaseBdevs
    /\ base_ch \in [ProbeBases -> BOOLEAN]
    /\ delta_bitmap_enabled = FALSE
    /\ blockcnt = MaxNumBlocks
    /\ optimal_io_boundary = 0
    /\ base_delta_bitmap = [b \in ProbeBases |-> NullBitArray]
    /\ lvol = NoLvol
    /\ fragmap_io = NoFragmapIo
    /\ InitRaidBdev
    /\ channels = NoChannels

SpecRepair == InitRepair /\ [][NextProbe]_vars

\* SpecStart: a raid bdev is started and then resized as its base bdevs are
\* resized.  No channel exists and no request is submitted.
ChannelUnchanged ==
    UNCHANGED <<ios, read_blocks_outstanding, delta_bitmaps, states, base_ch,
                base_delta_bitmap, delta_bitmap_enabled, num_base_bdevs, lvol,
                fragmap_io, channels>>

\* The base slots before raid1_start: a slot with a descriptor has its bdev
\* and a data area inside it; a slot without one has only the data size the
\* framework knows for it.  At least one slot has a descriptor.
BaseBdevInfos ==
    {[desc |-> TRUE, data_size |-> ds, data_offset |-> off, blockcnt |-> bc,
      optimal_io_boundary |-> ob] :
         ds \in 1 .. MaxBlockcnt, off \in 0 .. 1, bc \in 1 .. MaxBlockcnt,
         ob \in 0 .. MaxNumBlocks}
    \cup {[desc |-> FALSE, data_size |-> ds, data_offset |-> 0, blockcnt |-> 0,
           optimal_io_boundary |-> 0] : ds \in 1 .. MaxBlockcnt}

InitStart ==
    /\ ios = [k \in {1} |-> FreeIo]
    /\ InitChannel
    /\ num_base_bdevs = NumBaseBdevs
    /\ base_ch = [b \in Bases |-> FALSE]
    /\ delta_bitmap_enabled \in BOOLEAN
    /\ blockcnt = 0
    /\ optimal_io_boundary = 0
    /\ base_delta_bitmap = [b \in Bases |-> NullBitArray]
    /\ module_private = FALSE
    /\ channels = NoChannels
    /\ base_bdev_info \in
           {info \in [Bases -> BaseBdevInfos] :
               /\ \E b \in Bases : info[b].desc
               /\ \A b \in Bases :
                      info[b].desc
                        => info[b].data_size + info[b].data_offset <= info[b].blockcnt}

RaidStart ==
    /\ ~module_private
    /\ \E calloc_ok \in BOOLEAN :
           LET r == raid1_start(base_bdev_info, calloc_ok)
           IN  /\ r.rc = "OK"
               /\ base_bdev_info' = r.info
               /\ blockcnt' = r.blockcnt
               /\ optimal_io_boundary' = r.optimal_io_boundary
               /\ module_private' = r.module_private
    /\ ChannelUnchanged

\* A base bdev is resized.
BaseBdevResized(b) ==
    /\ module_private
    /\ base_bdev_info[b].desc
    /\ \E bc \in 1 .. MaxBlockcnt :
           /\ bc # base_bdev_info[b].blockcnt
           /\ base_bdev_info' = [base_bdev_info EXCEPT ![b].blockcnt = bc]
    /\ UNCHANGED <<blockcnt, optimal_io_boundary, module_private>>
    /\ ChannelUnchanged

RaidResize ==
    /\ module_private
    /\ \E accepted \in BOOLEAN :
           LET r == raid1_resize(base_bdev_info, accepted)
           IN  /\ base_bdev_info' = r.info
               /\ blockcnt' = r.blockcnt
    /\ UNCHANGED <<optimal_io_boundary, module_private>>
    /\ ChannelUnchanged

NextStart ==
    \/ RaidStart
    \/ \E b \in Bases : BaseBdevResized(b)
    \/ RaidResize

SpecStart == InitStart /\ [][NextStart]_vars

\* ------------------------------------------------------------------- claims
Done(k) == ios[k].phase = "done"

\* C1: a WRITE ends SUCCESS if and only if at least one base accepted its
\* writev and completed it successfully; otherwise (every leg failed, was
\* skipped as a missing slot or was covered by a submission error) it ends
\* FAILED, whatever the order of completions and ENOMEM resumes.
C1_WriteStatus ==
    \A k \in IoSlots :
        (Done(k) /\ ios[k].type = "WRITE")
            => /\ ios[k].status \in {"SUCCESS", "FAILED"}
               /\ (ios[k].status = "SUCCESS" <=> ios[k].ok_legs # {})
               /\ ((\A b \in Bases : ~base_ch[b]) => ios[k].status = "FAILED")

C1_Witness ==
    \E k \in IoSlots :
        /\ Done(k) /\ ios[k].type = "WRITE" /\ ios[k].status = "SUCCESS"
        /\ ios[k].io_failed # {}

\* C2: every accepted request is completed at most once, with SUCCESS or
\* FAILED, and nothing of it is in flight or parked afterwards; remaining is
\* never negative; the legs handed to the aggregator of a WRITE, UNMAP or
\* FLUSH and the legs still remaining add up to num_base_bdevs, so a
\* completed one has accounted exactly num_base_bdevs legs.
C2_CompletedOnce ==
    \A k \in IoSlots :
        /\ ios[k].completions <= 1
        /\ ios[k].base_bdev_io_remaining >= 0
        /\ Done(k) => /\ ios[k].completions = 1
                      /\ ios[k].status \in {"SUCCESS", "FAILED"}
                      /\ ios[k].legs = {}
                      /\ ios[k].io_wait = "none"
        /\ ios[k].completions = 1 => Done(k)
        /\ (ios[k].phase # "free" /\ ios[k].type # "READ")
               => /\ ios[k].accounted + ios[k].base_bdev_io_remaining = num_base_bdevs
                  /\ Done(k) => ios[k].accounted = num_base_bdevs

C2_Witness ==
    \E k \in IoSlots :
        /\ Done(k) /\ ios[k].type = "WRITE"
        /\ ios[k].ok_legs # {} /\ ios[k].base_bdev_io_submitted < NumBaseBdevs

\* C3: with every accepted base I/O completing and every parked request
\* resumed until -ENOMEM stops recurring, every accepted request reaches its
\* completion: none stays parked or in flight forever.
C3_Liveness ==
    \A k \in 1 .. LiveIo : (ios[k].phase = "active") ~> (ios[k].phase = "done")

C3_Witness ==
    \E k \in IoSlots :
        /\ ios[k].phase = "active" /\ ios[k].legs = {}
        /\ ios[k].io_wait = "raid1_correct_read_error"
        /\ ios[k].primary_failed /\ ios[k].alt_ok

\* C4: a READ whose primary replica failed and for which an alternate
\* replica's read succeeded ends SUCCESS, whether the write-back to the failing
\* replica succeeds, fails, or cannot be submitted.
C4_ReadRepairSuccess ==
    \A k \in IoSlots :
        (Done(k) /\ ios[k].type = "READ" /\ ios[k].primary_failed /\ ios[k].alt_ok)
            => ios[k].status = "SUCCESS"

C4_Witness ==
    \E k \in IoSlots :
        /\ Done(k) /\ ios[k].type = "READ" /\ ios[k].alt_ok
        /\ ios[k].base_bdev_io_submitted \in ios[k].io_failed

\* C5 as claimed: every counter is non-negative and equals the blocks of all
\* reads in flight on that base, read-repair probes included.
RECURSIVE ReadBlocksOf(_, _, _)
ReadBlocksOf(S, b, ops) ==
    IF S = {} THEN 0
    ELSE LET k == CHOOSE j \in S : TRUE
         IN  (IF \E op \in ops : <<b, op>> \in ios[k].legs
              THEN ios[k].num_blocks ELSE 0)
             + ReadBlocksOf(S \ {k}, b, ops)

InFlightReadBlocks(b, ops) == ReadBlocksOf(IoSlots, b, ops)

C5_CountersAllReads ==
    \A b \in Bases :
        /\ read_blocks_outstanding[b] >= 0
        /\ read_blocks_outstanding[b] = InFlightReadBlocks(b, {"readv", "probe"})

\* C5 as amended: every counter is non-negative and equals the blocks of the
\* reads in flight on that base that the read dispatcher submitted
\* (raid1_submit_read_request); the probes of read repair are not counted.
C5_CountersPrimaryReads ==
    \A b \in Bases :
        /\ read_blocks_outstanding[b] >= 0
        /\ read_blocks_outstanding[b] = InFlightReadBlocks(b, {"readv"})

C5_Witness ==
    \E b \in Bases : \E k, j \in IoSlots :
        /\ <<b, "readv">> \in ios[k].legs
        /\ <<b, "probe">> \in ios[j].legs
        /\ read_blocks_outstanding[b] = ios[k].num_blocks

\* C7: next_read_base returns the base with the fewest outstanding read blocks
\* among those whose base channel is present, the lowest index on ties, and
\* "none" (UINT8_MAX) exactly when no base channel is present.
C7_NextReadBase ==
    LET idx == raid1_channel_next_read_base_bdev(read_blocks_outstanding, base_ch)
        present == {b \in Bases : base_ch[b]}
    IN  /\ idx = UINT8_MAX <=> present = {}
        /\ idx # UINT8_MAX =>
               /\ idx \in present
               /\ \A b \in present :
                      \/ read_blocks_outstanding[idx] < read_blocks_outstanding[b]
                      \/ (read_blocks_outstanding[idx] = read_blocks_outstanding[b]
                          /\ idx <= b)

C7_Witness ==
    /\ \A b \in Bases : base_ch[b]
    /\ \E k \in IoSlots : \E b \in Bases : b > 0 /\ <<b, "readv">> \in ios[k].legs
    /\ \A b \in Bases : read_blocks_outstanding[b] = read_blocks_outstanding[0]
    /\ raid1_channel_next_read_base_bdev(read_blocks_outstanding, base_ch) = 0

\* The spread of the counters: the largest minus the smallest.
Spread ==
    LET most == CHOOSE x \in Bases :
                    \A y \in Bases : read_blocks_outstanding[x] >= read_blocks_outstanding[y]
        least == CHOOSE x \in Bases :
                    \A y \in Bases : read_blocks_outstanding[x] <= read_blocks_outstanding[y]
    IN  read_blocks_outstanding[most] - read_blocks_outstanding[least]

ReadAccepted ==
    \E k \in IoSlots :
        /\ ios[k].phase = "free" /\ ios'[k].type = "READ" /\ ios'[k].legs # {}

\* C6 as claimed: with every replica healthy and reads of one size, after any
\* interleaving of earlier submissions and completions the spread of the
\* counters is at most num_blocks once a read has been submitted.
C6_LoadBalance == [][ReadAccepted => Spread' <= MaxNumBlocks]_vars

\* C6 as amended: a read submission keeps the balance: when the spread is at
\* most num_blocks before a read is submitted it is at most num_blocks after
\* it, so a run of same-sized submissions with no completion in between never
\* exceeds it.  Completions can widen the spread beyond num_blocks.
C6_SubmissionKeepsBalance ==
    [][(ReadAccepted /\ Spread <= MaxNumBlocks) => Spread' <= MaxNumBlocks]_vars

C6_Witness ==
    /\ Spread = MaxNumBlocks
    /\ \E k \in IoSlots : Done(k)
    /\ Cardinality({k \in IoSlots : ios[k].legs # {}}) >= NumBaseBdevs + 1

\* The delta regions a request overlaps.
Regions(io) ==
    (io.offset_blocks \div optimal_io_boundary)
        .. ((io.offset_blocks + io.num_blocks - 1) \div optimal_io_boundary)

\* C8: with delta tracking enabled, a WRITE that began and completed while
\* base b stayed FAULTY on the channel (faulty_since) leaves the bit of every
\* region it overlaps set in the channel's delta bitmap of b, whether or not
\* b's base channel is present and whether or not b's leg succeeded.
C8_DeltaTrackingComplete ==
    \A k \in IoSlots :
        (Done(k) /\ ios[k].type = "WRITE")
            => \A b \in ios[k].faulty_since :
                   \A r \in Regions(ios[k]) : spdk_bit_array_get(delta_bitmaps[b], r)

\* C8 for the bitmaps the hot path itself created for a base whose base
\* channel is absent: the case that rests on raid1_handle_faulty_base_bdev
\* alone.
C8_HotPathTracking ==
    \A k \in IoSlots :
        (Done(k) /\ ios[k].type = "WRITE")
            => \A b \in ios[k].faulty_since :
                   (~base_ch[b] /\ delta_bitmaps[b].cap = HotPathBitmapCapacity)
                       => \A r \in Regions(ios[k]) :
                              spdk_bit_array_get(delta_bitmaps[b], r)

\* C9: while the channel state of a base does not become NONE, a step keeps
\* its channel delta bitmap and every bit set in it, and no step ever clears a
\* bit of the delta bitmap the raid bdev owns for the base.
C9_BitmapMonotone ==
    [][\A b \in Bases :
          /\ (delta_bitmaps[b] # NullBitArray /\ states'[b] # "NONE")
                 => /\ delta_bitmaps'[b].cap = delta_bitmaps[b].cap
                    /\ delta_bitmaps[b].bits \subseteq delta_bitmaps'[b].bits
          /\ base_delta_bitmap[b].bits \subseteq base_delta_bitmap'[b].bits]_vars

C9_Witness ==
    \E b \in Bases :
        /\ states[b] = "FAULTY_STOPPED"
        /\ Cardinality(delta_bitmaps[b].bits) >= MaxRegions
        /\ base_delta_bitmap[b].bits # {}
        /\ \E k \in IoSlots : Done(k) /\ ios[k].type = "READ" /\ b \in ios[k].io_failed

\* C10: a FAULTY to FAULTY_STOPPED hand-off of base b leaves the delta bitmap
\* the raid bdev owns for b equal to the OR of its value before the hand-off
\* and the whole channel delta bitmap of b.
C10_HandOffTotal ==
    [][\A b \in Bases :
          (states[b] = "FAULTY" /\ states'[b] = "FAULTY_STOPPED")
              => base_delta_bitmap'[b].bits
                     = base_delta_bitmap[b].bits \cup delta_bitmaps[b].bits]_vars


\* What every handler that can run for slot k now would leave behind under
\* the answers res, alloc and tres: [h, pre, post], h naming the handler and
\* its inputs, pre the request it was called with.  Handlers that submit
\* nothing (the completions of a write leg, an unmap or flush leg and a
\* process write) are left out.
HandlerTag(name, r, success, target) ==
    [name |-> name, r |-> r, success |-> success, target |-> target]

SubmitRuns(k, res, alloc, tres) ==
    IF ios[k].phase # "free" THEN {}
    ELSE UNION {
        {[h |-> HandlerTag("READ", r, TRUE, 0), pre |-> NewCtx(k, "READ", r),
          post |-> raid1_submit_rw_request(NewCtx(k, "READ", r), res, alloc)],
         [h |-> HandlerTag("WRITE", r, TRUE, 0), pre |-> NewCtx(k, "WRITE", r),
          post |-> raid1_submit_rw_request(NewCtx(k, "WRITE", r), res, alloc)],
         [h |-> HandlerTag("UNMAP", r, TRUE, 0), pre |-> NewCtx(k, "UNMAP", r),
          post |-> raid1_submit_null_payload_request(NewCtx(k, "UNMAP", r), res)],
         [h |-> HandlerTag("FLUSH", r, TRUE, 0), pre |-> NewCtx(k, "FLUSH", r),
          post |-> raid1_submit_null_payload_request(NewCtx(k, "FLUSH", r), res)]}
        \cup {[h |-> HandlerTag("process", r, TRUE, t),
               pre |-> [NewCtx(k, "READ", r) EXCEPT !.io.process = TRUE],
               post |-> raid1_submit_process_request(
                            [NewCtx(k, "READ", r) EXCEPT !.tres = tres], t, res).c]
                 : t \in Bases}
        : r \in Ranges}

ResumeRuns(k, res, alloc, tres) ==
    IF ios[k].io_wait = "none" THEN {}
    ELSE LET fn == ios[k].io_wait
             c == [CtxT(k, tres) EXCEPT !.io.io_wait = "none"]
         IN  {[h |-> HandlerTag(fn, <<0, 0>>, TRUE, 0), pre |-> c,
               post |-> CASE fn = "_raid1_submit_rw_request" ->
                                 raid1_submit_rw_request(c, res, alloc)
                          [] fn = "_raid1_submit_null_payload_request" ->
                                 raid1_submit_null_payload_request(c, res)
                          [] fn = "raid1_read_other_base_bdev" ->
                                 raid1_read_other_base_bdev(c, res)
                          [] fn = "raid1_correct_read_error" ->
                                 raid1_correct_read_error(c, res)
                          [] fn = "_raid1_process_submit_write" ->
                                 raid1_process_submit_write(c)]}

CompletionRuns(k, res, alloc, tres) ==
    UNION {
        {[h |-> HandlerTag(leg[2], <<0, 0>>, success, leg[1]), pre |-> CtxT(k, tres),
          post |-> CASE leg[2] = "readv" ->
                            raid1_read_bdev_io_completion(CtxT(k, tres), success, res)
                     [] leg[2] = "probe" ->
                            raid1_read_other_completion(CtxT(k, tres), leg[1], success, res)
                     [] leg[2] = "writeback" ->
                            raid1_correct_read_error_completion(
                                CtxT(k, tres), success, alloc[leg[1]])]
            : success \in BOOLEAN}
        : leg \in {l \in ios[k].legs : l[2] \in {"readv", "probe", "writeback"}}}

HandlerRuns(k, res, alloc, tres) ==
    SubmitRuns(k, res, alloc, tres) \cup ResumeRuns(k, res, alloc, tres)
        \cup CompletionRuns(k, res, alloc, tres)

\* Answers without an error other than -ENOMEM, and the answer "accepted"
\* to everything.
NoErrorOutcomes == {res \in SubmitOutcomes : \A b \in Bases : res[b] # "EIO"}

AllAccepted == [b \in Bases |-> "ok"]

AbsentIn(from, to) == {b \in Bases : from <= b /\ b < to /\ ~base_ch[b]}

\* The run parked the request and did nothing the run good, in which every
\* submission was accepted, did not do: the request is not completed, no base
\* is failed that good did not fail, and of a WRITE, UNMAP or FLUSH the cursor
\* stands on the base that answered -ENOMEM with nothing but the absent slots
\* before it taken off the remaining legs.
ParkedOnly(run, good, res) ==
    LET pre == run.pre.io
        post == run.post.io
        cur == post.base_bdev_io_submitted
        start == IF pre.base_bdev_io_submitted = 0
                 THEN num_base_bdevs ELSE pre.base_bdev_io_remaining
    IN  /\ post.io_wait # "none"
        /\ post.phase = "active"
        /\ post.completions = pre.completions
        /\ post.process_status = "NONE"
        /\ post.io_failed \subseteq good.post.io.io_failed
        /\ post.fail_calls <= good.post.io.fail_calls
        /\ post.handled \subseteq good.post.io.handled
        /\ run.post.st = good.post.st
        /\ post.type \in {"WRITE", "UNMAP", "FLUSH"}
               => /\ cur < num_base_bdevs /\ base_ch[cur] /\ res[cur] = "ENOMEM"
                  /\ post.base_bdev_io_remaining
                         = start - Cardinality(AbsentIn(pre.base_bdev_io_submitted, cur))

\* C11: -ENOMEM is never surfaced.  Whatever handler runs (a submission, a
\* resume or a completion that submits: primary read, write leg, unmap or
\* flush leg, read-repair probe, read-repair write-back, process write), if
\* the base bdevs answer with nothing worse than -ENOMEM and the handler ends
\* differently than it would had everything been accepted, then all it did
\* beyond the accepted legs is park the request on the resume function: the
\* request (bdev I/O or process request) is not completed, no leg is counted
\* as FAILED, and no base is failed or marked that would not have been with
\* every submission accepted.
C11_EnomemParks ==
    \A k \in IoSlots, res \in NoErrorOutcomes, tres \in {"ok", "ENOMEM"} :
      \A alloc \in AllocOutcomes :
        \A run \in HandlerRuns(k, res, alloc, tres) :
          \A good \in HandlerRuns(k, AllAccepted, alloc, "ok") :
              (run.h = good.h /\ run.post.io # good.post.io) => ParkedOnly(run, good, res)

\* A process request is parked on the write to its target, nothing failed.
C11_Witness ==
    \E k \in IoSlots :
        /\ ios[k].process /\ ios[k].phase = "active"
        /\ ios[k].io_wait = "_raid1_process_submit_write"
        /\ ios[k].io_failed = {} /\ ios[k].process_status = "NONE"

\* The primary read of the request was accepted by a base.
PrimaryAccepted(io) == \E b \in Bases : <<b, "readv">> \in io.accepted

\* C12 as stated: a READ ends FAILED only if no base has a base channel on
\* the channel when the read is submitted (base channels do not change while
\* the channel lives); with a base present the read does not end FAILED.
C12_ReadFailsOnlyWithoutBase ==
    \A k \in IoSlots :
        (Done(k) /\ ios[k].type = "READ" /\ ios[k].status = "FAILED")
            => \A b \in Bases : ~base_ch[b]

\* C12, amended: a READ ends FAILED if and only if no replica read of it
\* completed successfully: its primary read was never accepted (no base
\* channel present, or the submission returned an error other than -ENOMEM),
\* or the primary read failed and the repair found no alternate.  With no
\* base channel present it always ends FAILED.
C12_ReadFailure ==
    \A k \in IoSlots :
        (Done(k) /\ ios[k].type = "READ")
            => /\ ios[k].status = "FAILED"
                   <=> \/ ~PrimaryAccepted(ios[k])
                       \/ ios[k].primary_failed /\ ~ios[k].alt_ok
               /\ (\A b \in Bases : ~base_ch[b]) => ~PrimaryAccepted(ios[k])

\* A read that ended FAILED although both bases were present: its primary
\* read and the probe of the other base failed.
C12_Witness ==
    \E k \in IoSlots :
        /\ Done(k) /\ ios[k].type = "READ" /\ ios[k].status = "FAILED"
        /\ \A b \in Bases : base_ch[b]
        /\ ios[k].primary_failed
        /\ \E b \in Bases : <<b, "probe">> \in ios[k].accepted

LvolSize(dev) == spdk_bdev_get_num_blocks(dev) * dev.block_size

ValidRequest(io) ==
    /\ io.req_offset % spdk_bs_get_cluster_size(lvol) = 0
    /\ io.req_size % spdk_bs_get_cluster_size(lvol) = 0
    /\ io.req_offset + io.req_size <= LvolSize(lvol)

\* C14: for every valid request and every allocation layout, when the scan
\* emits its result, bit k of the bitmap is set if and only if cluster
\* offset / cluster_size + k of the volume is allocated, for every k below
\* num_clusters, and num_allocated_clusters is the number of set bits.
C14_FragmapResult ==
    (fragmap_io.response = "result" /\ ValidRequest(fragmap_io))
        => LET r == fragmap_io.result
               first == fragmap_io.req_offset \div r.cluster_size
           IN  /\ \A k \in 0 .. (r.num_clusters - 1) :
                      k \in r.fragmap <=> (first + k) \in lvol.allocated
               /\ r.num_allocated_clusters = Cardinality(r.fragmap)

AllReplicaTypes == {"WRITE", "UNMAP", "FLUSH"}

LegOp(type) == IF type = "WRITE" THEN "writev" ELSE NullPayloadOp(type)

AcceptedBelow(io, k) == {leg \in io.accepted : leg[1] < k}

\* What resuming the parked WRITE, UNMAP or FLUSH of slot k leaves behind.
ResumeRun(k, res, alloc) ==
    LET c == [Ctx(k) EXCEPT !.io.io_wait = "none"]
    IN  IF ios[k].type = "WRITE"
        THEN raid1_submit_rw_request(c, res, alloc)
        ELSE raid1_submit_null_payload_request(c, res)

WritePasses(k, b) ==
    /\ ios'[k].type = "WRITE" /\ ios'[k].phase # "free"
    /\ (IF ios[k].phase = "free" THEN 0 ELSE ios[k].base_bdev_io_submitted) <= b
    /\ b < ios'[k].base_bdev_io_submitted

\* C16: when the submission loop of a WRITE passes a slot b whose base
\* channel is absent, with delta tracking enabled and b NONE or FAULTY on the
\* channel (and the bitmap allocation, if one is needed, succeeding), every
\* region the write overlaps is then set in the channel's delta bitmap of b
\* and b is FAULTY; the leg is counted (as FAILED) and the loop goes on, so
\* the write ends SUCCESS when another leg succeeds.
C16_MissingReplicaMarked ==
    [][\A k \in IoSlots, b \in Bases :
          (WritePasses(k, b) /\ ~base_ch[b] /\ b < num_base_bdevs
              /\ delta_bitmap_enabled /\ states[b] \in {"NONE", "FAULTY"}
              /\ states'[b] # "FAULTY_STOPPED")
            => /\ states'[b] = "FAULTY"
               /\ \A r \in Regions(ios'[k]) : spdk_bit_array_get(delta_bitmaps'[b], r)
               /\ ios'[k].accounted >= 1
               /\ (ios'[k].phase = "done" /\ ios'[k].ok_legs # {}) => ios'[k].status = "SUCCESS"]_vars

Probes(io) == {leg \in io.accepted : leg[2] = "probe"}

WriteBacks(io) == {leg \in io.accepted : leg[2] = "writeback"}

WriteBackFails(k, b) ==
    /\ ios[k].phase = "active" /\ ios'[k].phase = "done" /\ ios'[k].type = "READ"
    /\ ios'[k].alt_ok
    /\ b = ios'[k].base_bdev_io_submitted
    /\ b \in ios'[k].io_failed

\* C19: when the write-back to the base whose primary read failed does not
\* succeed (it completes with an error, or its submission returns an error
\* other than -ENOMEM), the request still ends SUCCESS, that base is failed,
\* and, with delta tracking enabled and the base NONE or FAULTY on the
\* channel (and the bitmap allocation, if one is needed, succeeding), every
\* region the read overlaps is set in the channel's delta bitmap of the base.
C19_WriteBackFailureMarked ==
    [][\A k \in IoSlots, b \in Bases :
          WriteBackFails(k, b)
            => /\ ios'[k].status = "SUCCESS"
               /\ ios'[k].fail_calls = 1
               /\ (delta_bitmap_enabled /\ states[b] \in {"NONE", "FAULTY"}
                      /\ states'[b] # "FAULTY_STOPPED")
                     => \A r \in Regions(ios'[k]) :
                            spdk_bit_array_get(delta_bitmaps'[b], r)]_vars

\* C20: when the primary read of a READ failed and no alternate's read
\* succeeded (every alternate that could be tried completed with an error),
\* the request ends FAILED, it has failed the base of the primary read and no
\* other, with one call, and no write-back was ever accepted or parked.
C20_ReadRepairExhausted ==
    \A k \in IoSlots :
        (ios[k].type = "READ" /\ ios[k].phase # "free" /\ ios[k].primary_failed
             /\ ~ios[k].alt_ok)
          => /\ WriteBacks(ios[k]) = {}
             /\ ios[k].io_wait # "raid1_correct_read_error"
             /\ ios[k].handled = {}
             /\ Done(k) => /\ ios[k].status = "FAILED"
                            /\ ios[k].io_failed = {ios[k].base_bdev_io_submitted}
                            /\ <<ios[k].base_bdev_io_submitted, "readv">>
                                   \in ios[k].accepted
                            /\ ios[k].fail_calls = 1
                            /\ ios[k].completions = 1
             /\ ~Done(k) => ios[k].io_failed = {} /\ ios[k].fail_calls = 0

\* A read that ended FAILED after its primary read and the probe of the
\* other base both completed with an error.
C20_Witness ==
    \E k \in IoSlots :
        /\ Done(k) /\ ios[k].type = "READ" /\ ios[k].status = "FAILED"
        /\ ios[k].primary_failed /\ ~ios[k].alt_ok
        /\ Probes(ios[k]) # {}
        /\ ios[k].io_failed = {ios[k].base_bdev_io_submitted}

\* The READ in slot k, whose primary read on base b failed, completes in this
\* step without any alternate having been tried: no other base has a base
\* channel.
NoAlternate(k, b) ==
    /\ ios[k].phase = "active" /\ ios'[k].phase = "done" /\ ios'[k].type = "READ"
    /\ ios'[k].primary_failed
    /\ b = ios'[k].base_bdev_io_submitted
    /\ \A a \in Bases : (a # b /\ a < num_base_bdevs) => ~base_ch[a]

\* C21: when the primary read fails and no other base has a base channel,
\* the base of the primary read is failed, raid1_handle_faulty_base_bdev is
\* applied to it for the read's range (with delta tracking enabled and the
\* base NONE or FAULTY on the channel, and the bitmap allocation, if one is
\* needed, succeeding, every region the read overlaps is set in the channel's
\* delta bitmap of the base), and the request ends FAILED.
C21_NoAlternateMarked ==
    [][\A k \in IoSlots, b \in Bases :
          NoAlternate(k, b)
            => /\ ios'[k].status = "FAILED"
               /\ b \in ios'[k].io_failed
               /\ b \in ios'[k].handled
               /\ (delta_bitmap_enabled /\ states[b] \in {"NONE", "FAULTY"}
                      /\ states'[b] # "FAULTY_STOPPED")
                     => \A r \in Regions(ios'[k]) :
                            spdk_bit_array_get(delta_bitmaps'[b], r)]_vars

\* The read-repair handlers that can give up: the failed completion of the
\* primary read or of a probe (leg), and the resumption of a parked
\* raid1_read_other_base_bdev, under the submission results res.
ProbeRuns(k, res) ==
    {raid1_read_bdev_io_completion(Ctx(k), FALSE, res) :
         leg \in {l \in ios[k].legs : l[2] = "readv"}}
    \cup {raid1_read_other_completion(Ctx(k), leg[1], FALSE, res) :
         leg \in {l \in ios[k].legs : l[2] = "probe"}}
    \cup {raid1_read_other_base_bdev(Ctx(k), res) :
         f \in {ios[k].io_wait} \cap {"raid1_read_other_base_bdev"}}

\* C22: a probe submission that fails with an error other than ENOMEM makes
\* read-repair skip that alternate and go on to the next one with a base
\* channel: a read-repair handler ends the READ FAILED only when every base
\* with a base channel other than the base of the primary read has either
\* accepted a probe or refused its submission.
C22_ProbeErrorSkips ==
    \A k \in IoSlots : \A res \in SubmitOutcomes : \A post \in ProbeRuns(k, res) :
        (ios[k].type = "READ" /\ ~ios[k].process
           /\ post.io.phase = "done" /\ post.io.status = "FAILED")
          => \A a \in DOMAIN base_ch :
                 (base_ch[a] /\ a # post.io.base_bdev_io_submitted)
                   => \/ <<a, "probe">> \in post.io.accepted
                      \/ res[a] \notin {"ok", "ENOMEM"}

\* Every bit array allocation succeeds.
AllAllocated == [b \in Bases |-> TRUE]

\* The contexts raid1_submit_rw_request can be called with for a host READ in
\* slot k: a new request of any range, or the parked request resumed.
PrimarySubmits(k) ==
    {NewCtx(k, "READ", r) : r \in {x \in Ranges : ios[k].phase = "free"}}
    \cup {[Ctx(k) EXCEPT !.io.io_wait = "none"] :
              f \in {ios[k].io_wait} \cap
                       {fn \in {"_raid1_submit_rw_request"} :
                            ios[k].type = "READ" /\ ~ios[k].process}}

\* C23: submitting the primary read to the chosen base idx, when accepted,
\* records idx as base_bdev_io_submitted and adds exactly num_blocks to
\* read_blocks_outstanding[idx]; on ENOMEM or any other error no counter
\* changes; an error other than ENOMEM completes the request FAILED exactly
\* once with no probe submitted and no base failed; and the completion of the
\* primary read subtracts exactly num_blocks from
\* read_blocks_outstanding[base_bdev_io_submitted], whether it succeeded or not.
C23_PrimaryReadSubmission ==
    \A k \in IoSlots : \A res \in SubmitOutcomes :
        /\ \A c \in PrimarySubmits(k) :
              LET idx == raid1_channel_next_read_base_bdev(c.rbo, base_ch)
                  post == raid1_submit_rw_request(c, res, AllAllocated)
              IN  idx # UINT8_MAX
                    => /\ res[idx] = "ok"
                            => /\ post.io.base_bdev_io_submitted = idx
                               /\ post.io.legs = c.io.legs \cup {<<idx, "readv">>}
                               /\ post.rbo = [c.rbo EXCEPT ![idx] = @ + c.io.num_blocks]
                               /\ post.io.phase = "active"
                       /\ res[idx] # "ok" => post.rbo = c.rbo
                       /\ res[idx] = "ENOMEM"
                            => /\ post.io.io_wait = "_raid1_submit_rw_request"
                               /\ post.io.phase = "active" /\ post.io.legs = {}
                       /\ res[idx] \notin {"ok", "ENOMEM"}
                            => /\ post.io.phase = "done" /\ post.io.status = "FAILED"
                               /\ post.io.completions = c.io.completions + 1
                               /\ post.io.completions = 1
                               /\ post.io.accepted = {} /\ post.io.legs = {}
                               /\ ~post.io.primary_failed
                               /\ post.io.io_failed = {} /\ post.io.fail_calls = 0
        /\ \A leg \in ios[k].legs : \A success \in BOOLEAN :
              leg[2] = "readv"
                => LET post == raid1_read_bdev_io_completion(Ctx(k), success, res)
                   IN  /\ leg[1] = ios[k].base_bdev_io_submitted
                       /\ post.rbo = [read_blocks_outstanding
                                         EXCEPT ![leg[1]] = @ - ios[k].num_blocks]

\* A primary read of two blocks is in flight on base 1, counted there, while
\* another READ was refused by its base and has ended FAILED.
C23_Witness ==
    \E k, j \in IoSlots :
        /\ ios[k].type = "READ" /\ ios[k].num_blocks = 2
        /\ ios[k].legs = {<<1, "readv">>} /\ ios[k].base_bdev_io_submitted = 1
        /\ read_blocks_outstanding[1] >= 2
        /\ ios[j].type = "READ" /\ Done(j) /\ ios[j].status = "FAILED"
        /\ ios[j].accepted = {} /\ \E b \in Bases : base_ch[b]

\* raid1_handle_faulty_base_bdev looks at the base: it is FAULTY on the
\* channel, or NONE with delta tracking enabled.
Tracked(st, idx) == st[idx] = "FAULTY" \/ (st[idx] = "NONE" /\ delta_bitmap_enabled)

\* C24: called for the request of an active slot and base idx,
\* raid1_handle_faulty_base_bdev, when idx is FAULTY, or NONE with delta
\* tracking enabled, and the bitmap exists or its allocation succeeds, sets
\* exactly the bits of the regions the request overlaps in the channel's delta
\* bitmap of idx and changes no other bit and no other bitmap, and a first
\* allocation makes idx FAULTY; when idx is FAULTY_STOPPED, or NONE with delta
\* tracking disabled, it changes no state and no bitmap.
C24_MarksExactly ==
    \A k \in IoSlots : \A idx \in Bases : \A alloc_ok \in BOOLEAN :
        (ios[k].phase = "active" /\ idx < num_base_bdevs)
          => LET post == raid1_handle_faulty_base_bdev(Ctx(k), idx, alloc_ok)
                 absent == delta_bitmaps[idx] = NullBitArray
             IN  /\ (Tracked(states, idx) /\ (~absent \/ alloc_ok))
                       => /\ post.bm[idx].bits
                                = (IF absent THEN {} ELSE delta_bitmaps[idx].bits)
                                      \cup Regions(ios[k])
                          /\ \A b \in Bases \ {idx} : post.bm[b] = delta_bitmaps[b]
                          /\ post.st = IF absent
                                        THEN [states EXCEPT ![idx] = "FAULTY"]
                                        ELSE states
                 /\ ~Tracked(states, idx)
                       => post.st = states /\ post.bm = delta_bitmaps

\* C25: every channel delta bitmap, created by raid1_handle_faulty_base_bdev
\* or by the NONE to FAULTY hand-off, has ceil(blockcnt / optimal_io_boundary)
\* bits, so every index raid1_handle_faulty_base_bdev sets for a request
\* inside the raid bdev, and every index the FAULTY to FAULTY_STOPPED hand-off
\* reads or sets, is below the capacity of the bitmap it touches.
C25_BitmapCapacity ==
    /\ \A b \in Bases :
          delta_bitmaps[b] # NullBitArray
            => delta_bitmaps[b].cap = CeilDiv(blockcnt, optimal_io_boundary)
    /\ \A k \in IoSlots : \A idx \in Bases :
          (ios[k].phase = "active" /\ idx < num_base_bdevs /\ Tracked(states, idx))
            => \A r \in Regions(ios[k]) :
                   r < raid1_handle_faulty_base_bdev(Ctx(k), idx, TRUE).bm[idx].cap
    /\ \A b \in Bases :
          (delta_bitmap_enabled /\ b < num_base_bdevs /\ states[b] = "FAULTY")
            => \A i \in 0 .. (raid_bdev_delta_bitmap_region_blocks_number(
                                   optimal_io_boundary) - 1) :
                   i < delta_bitmaps[b].cap /\ i < base_delta_bitmap[b].cap

\* The contexts raid1_submit_rw_request can be called with for a host WRITE
\* in slot k: a new request of any range, or the parked request resumed.
WriteSubmits(k) ==
    {NewCtx(k, "WRITE", r) : r \in {x \in Ranges : ios[k].phase = "free"}}
    \cup {[Ctx(k) EXCEPT !.io.io_wait = "none"] :
              f \in {ios[k].io_wait} \cap
                       {fn \in {"_raid1_submit_rw_request"} : ios[k].type = "WRITE"}}

\* The bases raid1_handle_faulty_base_bdev was called for between c and post
\* and needed a bitmap for.
NeedsBitmap(c, post) ==
    {b \in post.io.handled \ c.io.handled : Tracked(c.st, b) /\ AllocNeeded(b)}

\* C26: when raid1_handle_faulty_base_bdev needs a channel bitmap for a base
\* and the allocation fails, the base becomes FAULTY_STOPPED on the channel,
\* no bitmap is created and no bit is set, and the request is left exactly as
\* it is when the allocation succeeds (same legs, same accounting, same
\* status); and for a base that is FAULTY_STOPPED the function changes no
\* bitmap and no state, so later writes are not tracked.
C26_HotPathAllocFailure ==
    \A k \in IoSlots :
        /\ \A leg \in ios[k].legs :
              (leg[2] = "writev" /\ Tracked(states, leg[1]) /\ AllocNeeded(leg[1]))
                => LET bad == raid1_write_bdev_io_completion(Ctx(k), leg[1], FALSE, FALSE)
                       good == raid1_write_bdev_io_completion(Ctx(k), leg[1], FALSE, TRUE)
                   IN  /\ bad.st = [states EXCEPT ![leg[1]] = "FAULTY_STOPPED"]
                       /\ bad.bm = delta_bitmaps
                       /\ bad.io = good.io
                       /\ good.st[leg[1]] = "FAULTY"
        /\ \A leg \in ios[k].legs :
              LET b == ios[k].base_bdev_io_submitted
              IN  (leg[2] = "writeback" /\ Tracked(states, b) /\ AllocNeeded(b))
                    => LET bad == raid1_correct_read_error_completion(Ctx(k), FALSE, FALSE)
                           good == raid1_correct_read_error_completion(Ctx(k), FALSE, TRUE)
                       IN  /\ bad.st = [states EXCEPT ![b] = "FAULTY_STOPPED"]
                           /\ bad.bm = delta_bitmaps
                           /\ bad.io = good.io
                           /\ good.st[b] = "FAULTY"
        /\ \A c \in WriteSubmits(k) : \A res \in SubmitOutcomes :
              \A alloc \in AllocOutcomes :
                  LET bad == raid1_submit_rw_request(c, res, alloc)
                      good == raid1_submit_rw_request(c, res, AllAllocated)
                  IN  /\ bad.io = good.io
                      /\ \A b \in Bases :
                             IF b \in NeedsBitmap(c, bad) /\ ~alloc[b]
                             THEN /\ bad.st[b] = "FAULTY_STOPPED"
                                  /\ bad.bm[b] = NullBitArray
                                  /\ good.st[b] = "FAULTY"
                             ELSE bad.st[b] = good.st[b] /\ bad.bm[b] = good.bm[b]
        /\ \A b \in Bases : \A alloc_ok \in BOOLEAN :
              (ios[k].phase = "active" /\ b < num_base_bdevs
                 /\ states[b] = "FAULTY_STOPPED")
                => LET post == raid1_handle_faulty_base_bdev(Ctx(k), b, alloc_ok)
                   IN  post.bm = delta_bitmaps /\ post.st = states

\* A WRITE ended SUCCESS on base 1 although its leg on base 0 failed and the
\* bitmap of base 0 could not be allocated: base 0 is FAULTY_STOPPED without
\* a bitmap.
C26_Witness ==
    \E k \in IoSlots :
        /\ ios[k].type = "WRITE" /\ Done(k) /\ ios[k].status = "SUCCESS"
        /\ 0 \in ios[k].io_failed /\ 0 \in ios[k].handled /\ 1 \in ios[k].ok_legs
        /\ states[0] = "FAULTY_STOPPED" /\ delta_bitmaps[0] = NullBitArray
        /\ delta_bitmap_enabled

\* The hand-offs channel_faulty_base_bdev refuses.
Rejected(state, newState, alloc_ok) ==
    \/ state = "FAULTY_STOPPED" /\ newState = "FAULTY"
    \/ state = "NONE" /\ newState = "FAULTY" /\ ~alloc_ok

\* C27: a requested FAULTY_STOPPED to FAULTY hand-off always returns ENOMEM,
\* and so does a NONE to FAULTY hand-off whose bitmap allocation fails; both
\* leave the channel state of the base, its channel bitmap and the bitmap the
\* raid bdev owns for it as they were.  Every other requested hand-off
\* returns 0 and sets the channel state of the base to the requested state.
C27_RejectedHandOff ==
    \A idx \in Bases : \A newState \in BaseStates : \A alloc_ok \in BOOLEAN :
        (delta_bitmap_enabled /\ idx < num_base_bdevs)
          => LET r == channel_faulty_base_bdev(delta_bitmaps[idx], base_delta_bitmap[idx],
                                               states[idx], newState, alloc_ok)
             IN  IF Rejected(states[idx], newState, alloc_ok)
                 THEN /\ r.rc = "ENOMEM"
                      /\ r.st = states[idx]
                      /\ r.bm = delta_bitmaps[idx]
                      /\ r.base = base_delta_bitmap[idx]
                 ELSE r.rc = "OK" /\ r.st = newState

\* Base 0 was handed over to FAULTY and on to FAULTY_STOPPED with regions
\* marked, and base 1 is NONE: both hand-offs to FAULTY that can be refused
\* can be requested.
C27_Witness ==
    /\ delta_bitmap_enabled /\ num_base_bdevs = NumBaseBdevs
    /\ states[0] = "FAULTY_STOPPED" /\ delta_bitmaps[0].bits # {}
    /\ base_delta_bitmap[0].bits # {}
    /\ states[1] = "NONE" /\ delta_bitmaps[1] = NullBitArray

\* C28: a successful grow of the channel from N to N' > N bases leaves the
\* counters, the bitmap handles and the states with N' entries each, keeps
\* the entries below N, and makes every appended entry zero, null and NONE.
C28_GrowAppended ==
    [][num_base_bdevs' > num_base_bdevs
         => /\ GrowLengths(num_base_bdevs, num_base_bdevs', TRUE, TRUE)
                  = [rbo |-> num_base_bdevs', bm |-> num_base_bdevs',
                     states |-> num_base_bdevs']
            /\ \A b \in Bases :
                  /\ b < num_base_bdevs
                       => /\ read_blocks_outstanding'[b] = read_blocks_outstanding[b]
                          /\ delta_bitmaps'[b] = delta_bitmaps[b]
                          /\ states'[b] = states[b]
                  /\ (num_base_bdevs <= b /\ b < num_base_bdevs')
                       => /\ read_blocks_outstanding'[b] = 0
                          /\ delta_bitmaps'[b] = NullBitArray
                          /\ states'[b] = "NONE"]_vars

\* C29: a grow that returns false leaves the three arrays of the channel with
\* the lengths and the contents they had, and a grow to the number of bases
\* the channel already has returns true and changes nothing.
C29_GrowAtomic ==
    \A new_num \in {num_base_bdevs, num_base_bdevs + 1} :
      \A rbo_ok \in BOOLEAN, bm_ok \in BOOLEAN :
        new_num <= NumBaseBdevs
          => LET N == num_base_bdevs
                 r == channel_grow_base_bdev(read_blocks_outstanding, delta_bitmaps,
                                             N, new_num, rbo_ok, bm_ok)
                 len == GrowLengths(N, new_num, rbo_ok, bm_ok)
                 kept == /\ r.rbo = read_blocks_outstanding
                         /\ r.bm = delta_bitmaps
                         /\ len = GrowLengths(N, N, TRUE, TRUE)
             IN  /\ ~r.ok => kept
                 /\ new_num = N => (r.ok /\ kept)

MinOver(S) == CHOOSE m \in S : \A x \in S : m <= x

Slots == {b \in Bases : b < num_base_bdevs}

Present == {b \in Slots : base_bdev_info[b].desc}

\* A step in which raid1_start succeeds.
Started == ~module_private /\ module_private'

\* What a successful raid1_start leaves besides the block count: the
\* optimal_io_boundary is the least optimal_io_boundary of the bases with a
\* descriptor, not 0 when delta tracking is enabled, and from then on every
\* base's data_size is the block count of the raid bdev.
StartSizingRest ==
    /\ Started
          => /\ optimal_io_boundary'
                   = MinOver({base_bdev_info[b].optimal_io_boundary : b \in Present})
             /\ delta_bitmap_enabled => optimal_io_boundary' # 0
    /\ module_private'
          => \A b \in Slots : base_bdev_info'[b].data_size = blockcnt'

\* C30 as stated: after a successful start the block count of the raid bdev
\* is the least data_size of the base slots with a descriptor, the
\* optimal_io_boundary is the least optimal_io_boundary of those slots, and
\* every base's data_size is the block count, after start and every resize.
C30_StartOverPresent ==
    [][/\ Started
            => blockcnt' = MinOver({base_bdev_info[b].data_size : b \in Present})
       /\ StartSizingRest]_vars

\* C30, amended: the block count is the least data_size of all base slots,
\* with or without a descriptor.
C30_StartSizing ==
    [][/\ Started
            => blockcnt' = MinOver({base_bdev_info[b].data_size : b \in Slots})
       /\ StartSizingRest]_vars

\* A raid bdev with delta tracking and a slot without a descriptor has been
\* started and has MaxBlockcnt blocks: every base has that data_size.
C30_Witness ==
    /\ module_private /\ delta_bitmap_enabled
    /\ Present # {} /\ Present # Slots
    /\ optimal_io_boundary = 1
    /\ blockcnt = MaxBlockcnt
    /\ \A b \in Slots : base_bdev_info[b].data_size = blockcnt

\* C31: raid1_start fails when delta tracking is enabled and the least
\* optimal_io_boundary of the bases with a descriptor is 0; a failed start
\* changes no data_size, neither the block count nor the optimal_io_boundary
\* of the raid bdev, and registers no io device; so a started raid bdev with
\* delta tracking has a non-zero optimal_io_boundary.
C31_StartPrecondition ==
    /\ ~module_private
          => \A calloc_ok \in BOOLEAN :
                 LET r == raid1_start(base_bdev_info, calloc_ok)
                     zero == \E b \in Present :
                                 base_bdev_info[b].optimal_io_boundary = 0
                 IN  /\ (delta_bitmap_enabled /\ zero) => r.rc # "OK"
                     /\ r.rc # "OK"
                           => /\ r.info = base_bdev_info
                              /\ r.blockcnt = blockcnt
                              /\ r.optimal_io_boundary = optimal_io_boundary
                              /\ ~r.module_private /\ ~r.io_device_registered
                     /\ r.rc = "OK" => r.module_private /\ r.io_device_registered
    /\ (module_private /\ delta_bitmap_enabled) => optimal_io_boundary > 0

\* A raid bdev with delta tracking that cannot be started: a base with a
\* descriptor has no optimal_io_boundary, and the raid bdev is as it was
\* created.
C31_Witness ==
    /\ ~module_private /\ delta_bitmap_enabled
    /\ \E b \in Present : base_bdev_info[b].optimal_io_boundary = 0
    /\ \E b \in Present : base_bdev_info[b].optimal_io_boundary > 0
    /\ blockcnt = 0 /\ optimal_io_boundary = 0

\* The least data area of the bases with a descriptor: the bdev's blocks
\* behind data_offset.
MinDataArea ==
    MinOver({base_bdev_info[b].blockcnt - base_bdev_info[b].data_offset : b \in Present})

\* C32: with m the least (bdev block count - data_offset) of the bases with a
\* descriptor, raid1_resize returns false and changes nothing when m is the
\* block count of the raid bdev; returns false and changes no data_size when
\* the block count change is refused; and otherwise returns true with every
\* base's data_size equal to m.
C32_Resize ==
    module_private
      => \A accepted \in BOOLEAN :
             LET r == raid1_resize(base_bdev_info, accepted)
                 m == MinDataArea
             IN  /\ m = blockcnt
                       => ~r.ret /\ r.info = base_bdev_info /\ r.blockcnt = blockcnt
                 /\ (m # blockcnt /\ ~accepted)
                       => ~r.ret /\ r.info = base_bdev_info /\ r.blockcnt = blockcnt
                 /\ (m # blockcnt /\ accepted)
                       => /\ r.ret /\ r.blockcnt = m
                          /\ \A b \in Slots :
                                 r.info[b] = [base_bdev_info[b] EXCEPT !.data_size = m]

\* A started raid bdev was resized to nothing: a base bdev shrank to its
\* data_offset, and every base has data_size 0.
C32_Witness ==
    /\ module_private /\ blockcnt = 0 /\ MinDataArea = 0
    /\ \A b \in Slots : base_bdev_info[b].data_size = 0

\* The write of process request k to its target was accepted by the target.
ProcessWriteAccepted(k) == <<ios[k].target, "process_write">> \in ios[k].accepted

\* The process request in slot k was taken by the module (its submission did
\* not return an error to the framework).
ProcessTaken(k) == ios[k].process /\ ios[k].phase \in {"active", "done"}

\* C33: the pipeline of a process request the module took.  The write to the
\* target is submitted (accepted or parked on -ENOMEM) only once the request's
\* read has completed SUCCESS, and is accepted at most once; a read that ends
\* FAILED completes the request with -EIO and no write is submitted; a write
\* submission answered -ENOMEM parks the request on
\* _raid1_process_submit_write, whose resume submits the same write again
\* (accepted, parked again, or completed with the error returned); the
\* request is completed at most once, exactly once when it is done, with 0
\* exactly when the write was accepted and completed successfully and with an
\* error otherwise.  A submission that returned an error is never completed.
C33_ProcessPipeline ==
    \A k \in IoSlots :
        /\ ios[k].process /\ ios[k].phase = "rejected"
               => ios[k].completions = 0 /\ ~ProcessWriteAccepted(k)
        /\ ProcessTaken(k) =>
            LET io == ios[k]
                parked == io.io_wait = "_raid1_process_submit_write"
                writing == <<io.target, "process_write">> \in io.legs
            IN  /\ (ProcessWriteAccepted(k) \/ parked) => io.status = "SUCCESS"
                /\ ~io.dup
                /\ io.status = "FAILED"
                       => /\ io.phase = "done" /\ io.process_status = "EIO"
                          /\ ~ProcessWriteAccepted(k) /\ ~parked
                /\ parked => /\ io.phase = "active" /\ io.legs = {}
                             /\ ~ProcessWriteAccepted(k)
                             /\ \A tres \in SubmitResults :
                                  LET c == [CtxT(k, tres) EXCEPT !.io.io_wait = "none"]
                                      post == raid1_process_submit_write(c)
                                  IN  CASE tres = "ok" ->
                                               post = AddLeg(c, io.target, "process_write")
                                        [] tres = "ENOMEM" ->
                                               post.io = io
                                        [] OTHER ->
                                               /\ post.io.phase = "done"
                                               /\ post.io.process_status = tres
                                               /\ post.io.completions = 1
                                               /\ post.io.accepted = io.accepted
                /\ writing => /\ io.phase = "active" /\ io.legs = {<<io.target, "process_write">>}
                              /\ io.io_wait = "none"
                              /\ \A success \in BOOLEAN :
                                   LET post == raid1_process_write_completed(Ctx(k), success)
                                   IN  /\ post.io.phase = "done" /\ post.io.completions = 1
                                       /\ post.io.process_status
                                              = IF success THEN "OK" ELSE "EIO"
                /\ io.completions = IF io.phase = "done" THEN 1 ELSE 0
                /\ io.phase = "done"
                       => /\ io.process_status # "NONE" /\ io.legs = {} /\ io.io_wait = "none"
                          /\ io.process_status = "OK" => ProcessWriteAccepted(k)

\* A process request whose primary read failed and was repaired from the
\* other base has been written to its target and completed with 0.
C33_Witness ==
    \E k \in IoSlots :
        /\ ios[k].process /\ ios[k].phase = "done" /\ ios[k].process_status = "OK"
        /\ ios[k].primary_failed /\ ios[k].status = "SUCCESS"
        /\ ProcessWriteAccepted(k) /\ ios[k].completions = 1

\* A request with size 0 and a cluster-aligned offset within the volume.
SizeZeroRequest(io) ==
    /\ io.req_size = 0
    /\ io.req_offset % spdk_bs_get_cluster_size(lvol) = 0
    /\ io.req_offset <= LvolSize(lvol)

\* C34: for a request with size 0 and any cluster-aligned offset within the
\* volume, the result covers exactly [offset, volume size): num_clusters is
\* (volume size - offset) / cluster_size, and no bit of the bitmap stands for
\* a cluster beyond the end of the volume.
C34_SizeZeroToEnd ==
    (fragmap_io.response = "result" /\ SizeZeroRequest(fragmap_io))
        => LET r == fragmap_io.result
               first == fragmap_io.req_offset \div r.cluster_size
           IN  /\ r.num_clusters
                      = (LvolSize(lvol) - fragmap_io.req_offset) \div r.cluster_size
               /\ \A k \in 0 .. (r.num_clusters - 1) : first + k < lvol.num_clusters

\* C35: a request whose offset or effective size is not a multiple of the
\* cluster size, or whose offset + size exceeds the volume size, is answered
\* with EINVAL (unless its JSON does not decode or it names no logical
\* volume, which is answered first), and a request naming a nonexistent
\* device with ENODEV; for none of them a SEEK_DATA or SEEK_HOLE is issued
\* or a bitmap returned.
C35_Validation ==
    /\ (fragmap_io.state # "idle" /\ ~ValidRequest(fragmap_io))
           => /\ fragmap_io.response \in {"EINVAL", "ENODEV", "INTERNAL_ERROR"}
              /\ fragmap_io.seeks = 0
              /\ fragmap_io.fragmap = NullBitArray
    /\ fragmap_io.response = "ENODEV"
           => fragmap_io.seeks = 0 /\ fragmap_io.fragmap = NullBitArray

\* C36: for every valid request and every allocation layout, at each
\* SEEK_HOLE completion the new offset is not below current_offset (the
\* subtraction next - current does not underflow), every bit set in the
\* bitmap has an index below num_clusters, and num_allocated_clusters never
\* exceeds num_clusters.
C36_ScanInRange ==
    (ValidRequest(fragmap_io) /\ fragmap_io.fragmap # NullBitArray)
        => /\ fragmap_io.state = "seek_hole"
                  => \A b \in SeekHoleAnswers(lvol, fragmap_io.seek_from) :
                         SeekHoleNextOffset(fragmap_io, b) >= fragmap_io.current_offset
           /\ \A i \in fragmap_io.fragmap.bits : i < fragmap_io.fragmap.cap
           /\ fragmap_io.num_allocated_clusters <= fragmap_io.fragmap.cap

\* C37, its safety part: a bdev_lvol_get_fragmap request that has been
\* handled is, at every moment, either waiting for the completion of a seek
\* it issued, with no response sent yet, or answered with exactly one
\* response; so every path (validation failure, allocation or open failure,
\* a failed seek submission at any step including the first SEEK_DATA, no
\* more data, the end of the range) ends with exactly one response.
C37_RespondsOnce ==
    fragmap_io.state # "idle"
        => \/ fragmap_io.state \in {"seek_data", "seek_hole"} /\ fragmap_io.responses = 0
           \/ fragmap_io.state = "done" /\ fragmap_io.responses = 1

\* C38: on a channel of a raid bdev with delta tracking, in every state
\* reached by hot-path calls of raid1_handle_faulty_base_bdev and hand-offs
\* in any order, a base in channel state FAULTY has its per-channel delta
\* bitmap, and a base in channel state NONE has none; only in FAULTY_STOPPED
\* a bitmap can be present without being written to.
C38_StateBitmap ==
    \A b \in Bases :
        /\ states[b] = "FAULTY" => delta_bitmaps[b] # NullBitArray
        /\ states[b] = "NONE" => delta_bitmaps[b] = NullBitArray

\* One base is FAULTY with regions marked by the hot path, the other is
\* FAULTY_STOPPED and still has the bitmap it handed over.
C38_Witness ==
    \E b \in Bases, o \in Bases :
        /\ states[b] = "FAULTY" /\ delta_bitmaps[b] # NullBitArray
        /\ delta_bitmaps[b].bits # {}
        /\ states[o] = "FAULTY_STOPPED" /\ delta_bitmaps[o] # NullBitArray
        /\ base_delta_bitmap[o].bits # {}

\* The bases that have accepted a probe of the request, the probes in
\* flight, and the slot a parked raid1_read_other_base_bdev resumes at.
Probed(io) == {l[1] : l \in {x \in io.accepted : x[2] = "probe"}}

ProbesInFlight(io) == {l \in io.legs : l[2] = "probe"}

ResumeSlot(io) == num_base_bdevs - io.base_bdev_io_remaining

\* A step of the read-repair of request k as far as its probes go: the
\* failed completion of the primary read or of a probe, or the resumption of
\* a parked probe.
ProbeStep(k) ==
    \/ Probed(ios'[k]) # Probed(ios[k])
    \/ ProbesInFlight(ios[k]) # {} /\ ProbesInFlight(ios'[k]) = {}
    \/ ios[k].io_wait = "raid1_read_other_base_bdev" /\ ios'[k] # ios[k]

\* C39: during the read-repair of one request at most one probe is
\* outstanding, and nothing else of the request with it; a probe goes to a
\* slot above every slot probed before (ascending order, each alternate at
\* most once), never to the base of the failed primary read nor to a slot
\* without a base channel; a probe parked on -ENOMEM is retried on the same
\* slot; and no probe step changes read_blocks_outstanding beyond the
\* decrement the completion of the primary read makes for that read.
C39_SequentialProbes ==
    [][\A k \in IoSlots :
          LET pre == ios[k]
              post == ios'[k]
              primary == post.base_bdev_io_submitted
          IN  /\ ProbesInFlight(post) # {}
                     => Cardinality(post.legs) = 1 /\ post.io_wait = "none"
              /\ ~post.dup
              /\ \A b \in Probed(post) \ Probed(pre) :
                     /\ b # primary /\ base_ch[b]
                     /\ \A a \in Probed(pre) : a < b
                     /\ ProbesInFlight(post) = {<<b, "probe">>}
                     /\ ProbesInFlight(pre) = {} \/ pre.legs = {<<primary, "readv">>}
                            \/ \E a \in Probed(pre) : pre.legs = {<<a, "probe">>}
              /\ (pre.io_wait = "raid1_read_other_base_bdev" /\ post # pre)
                     => /\ ResumeSlot(pre) \notin Probed(pre)
                        /\ Probed(post) \ Probed(pre) \subseteq {ResumeSlot(pre)}
                        /\ post.io_wait = "raid1_read_other_base_bdev"
                               => ResumeSlot(post) = ResumeSlot(pre)
                        /\ (post.io_wait = "none" /\ post.phase = "active")
                               => ResumeSlot(pre) \in Probed(post)
              /\ ProbeStep(k)
                     => read_blocks_outstanding'
                            = IF pre.primary_failed
                              THEN read_blocks_outstanding
                              ELSE [read_blocks_outstanding EXCEPT
                                        ![primary] = @ - pre.num_blocks]]_vars

\* The primary read of a request went to the base in the middle and failed;
\* the lowest base was probed and failed too, and the probe of the highest
\* base is outstanding.
C39_Witness ==
    \E k \in IoSlots :
        /\ ios[k].type = "READ" /\ ios[k].primary_failed
        /\ ios[k].base_bdev_io_submitted = 1
        /\ Probed(ios[k]) = {0, 2}
        /\ ios[k].legs = {<<2, "probe">>}

\* C40: a request or a hand-off on one channel changes the counters, states
\* and delta bitmaps of no other channel; and every FAULTY to FAULTY_STOPPED
\* hand-off of a channel for base b leaves the delta bitmap the raid bdev
\* owns for b equal to the OR of its value before and that channel's bitmap
\* of b, so that after several channels have handed b over, in any order,
\* it is the OR of its initial value with all their bitmaps.
C40_ChannelsHandOff ==
    [][/\ \A p \in ChannelIds, q \in ChannelIds :
              (p # q /\ channels'[p] # channels[p]) => channels'[q] = channels[q]
       /\ \A p \in ChannelIds, b \in Bases :
              (channels[p].st[b] = "FAULTY" /\ channels'[p].st[b] = "FAULTY_STOPPED")
                  => base_delta_bitmap'[b].bits
                         = base_delta_bitmap[b].bits \cup channels[p].bm[b].bits]_vars

====
